---------------------------- MODULE Spec2Model ----------------------------
(***************************************************************************)
(* Sparse multi-phase-field storage and its conservative time integration  *)
(* (OpenPhase PhaseField): per-cell active-set nodes, pairwise increment   *)
(* stores, NormalizeIncrements, MergeIncrements, Finalize, FixSpreading    *)
(* and the grain registry.                                                 *)
(*                                                                         *)
(* Numbers.  The program computes in IEEE doubles; the model computes in   *)
(* exact rationals <<n, d>> (d > 0, lowest terms).  TLC integers are 32    *)
(* bit, so every nonzero model rational has magnitude above 2^-31, which   *)
(* is far above DBL_EPSILON = 2^-52: a comparison of a model value with    *)
(* DBL_EPSILON is therefore a comparison with zero.                        *)
(***************************************************************************)
EXTENDS Integers, Sequences, FiniteSets

(***************************************************************************)
(* Exact rational arithmetic                                               *)
(***************************************************************************)
Abs(x) == IF x < 0 THEN -x ELSE x

RECURSIVE GCD(_, _)
GCD(a, b) == IF b = 0 THEN a ELSE GCD(b, a % b)

Reduce(n, d, g) == IF d < 0 THEN <<(-n) \div g, (-d) \div g>>
                   ELSE <<n \div g, d \div g>>
Rat(n, d) == Reduce(n, d, GCD(Abs(n), Abs(d)))

Zero == <<0, 1>>
One  == <<1, 1>>

AddOver(x, y, g) ==
    Rat(x[1] * (y[2] \div g) + y[1] * (x[2] \div g), x[2] * (y[2] \div g))
RAdd(x, y) == AddOver(x, y, GCD(x[2], y[2]))
RNeg(x) == <<-x[1], x[2]>>
RSub(x, y) == RAdd(x, RNeg(y))
MulOver(x, y, g1, g2) ==
    <<(x[1] \div g1) * (y[1] \div g2), (x[2] \div g2) * (y[2] \div g1)>>
RMul(x, y) ==
    IF x[1] = 0 \/ y[1] = 0 THEN Zero
    ELSE MulOver(x, y, GCD(Abs(x[1]), y[2]), GCD(Abs(y[1]), x[2]))
RInv(x) == IF x[1] < 0 THEN <<-x[2], -x[1]>> ELSE <<x[2], x[1]>>
RDiv(x, y) == RMul(x, RInv(y))
LtOver(x, y, g) == x[1] * (y[2] \div g) < y[1] * (x[2] \div g)
RLt(x, y) == LtOver(x, y, GCD(x[2], y[2]))
RLe(x, y) == ~RLt(y, x)
RMin(x, y) == IF RLt(y, x) THEN y ELSE x
RMax(x, y) == IF RLt(x, y) THEN y ELSE x
IsNeg(x) == x[1] < 0
IsPos(x) == x[1] > 0
IsZero(x) == x[1] = 0

(* DBL_EPSILON (2^-52) against a model rational: see the header.  *)
AbsBelowDblEpsilon(x) == x[1] = 0
AboveDblEpsilon(x) == x[1] > 0

(* FLT_EPSILON = 2^-23 is the "precision" of NormalizeIncrementsSR.        *)
FltEpsilonDen == 8388608
(* x > FLT_EPSILON, for x = n/d with d < 2^31, without 32-bit overflow.    *)
AboveFltEpsilon(x) ==
    /\ x[1] > 0
    /\ (x[1] >= 256 \/ x[1] * FltEpsilonDen > x[2])

(***************************************************************************)
(* NodePF: the active-set node of one cell.  A node is a record            *)
(* [flag, pf] where pf is the sequence of entries [index, value] in        *)
(* insertion order and flag is 0 (bulk), 1 (next to an interface) or 2     *)
(* (interface).                                                            *)
(***************************************************************************)
Entry(i, v) == [index |-> i, value |-> v]

RECURSIVE FindIndex(_, _, _)
FindIndex(pf, idx, n) ==
    IF n > Len(pf) THEN 0
    ELSE IF pf[n].index = idx THEN n
    ELSE FindIndex(pf, idx, n + 1)

ValueAt(pf, n) == IF n = 0 THEN Zero ELSE pf[n].value
get_value(pf, idx) == ValueAt(pf, FindIndex(pf, idx, 1))

AddAt(pf, idx, v, n) ==
    IF n = 0 THEN Append(pf, Entry(idx, v))
    ELSE [pf EXCEPT ![n].value = RAdd(@, v)]
add_value(pf, idx, v) == AddAt(pf, idx, v, FindIndex(pf, idx, 1))

RECURSIVE SumValues(_, _)
SumValues(pf, n) ==
    IF n > Len(pf) THEN Zero ELSE RAdd(pf[n].value, SumValues(pf, n + 1))

NodeSum(pf) == SumValues(pf, 1)

wide_interface(node) == node.flag # 0
interface(node) == node.flag = 2

DropBelowEpsilon(pf) == SelectSeq(pf, LAMBDA e : ~AbsBelowDblEpsilon(e.value))

(* NodePF::finalize: prune the entries below machine epsilon; the flag     *)
(* says whether more than one region is left.                              *)
Flagged(pf) == [flag |-> IF Len(pf) > 1 THEN 2 ELSE 0, pf |-> pf]
finalize(node) == Flagged(DropBelowEpsilon(node.pf))

(***************************************************************************)
(* NodeAB: the pairwise increment store of one cell, a sequence of         *)
(* records [indexA, indexB, value1, value2] in insertion order.            *)
(***************************************************************************)
Pair(a, b, v1, v2) == [indexA |-> a, indexB |-> b, value1 |-> v1, value2 |-> v2]

RECURSIVE FindPair(_, _, _, _)
FindPair(store, a, b, n) ==
    IF n > Len(store) THEN 0
    ELSE IF \/ (store[n].indexA = a /\ store[n].indexB = b)
            \/ (store[n].indexA = b /\ store[n].indexB = a) THEN n
    ELSE FindPair(store, a, b, n + 1)

Asym1At(store, a, n) ==
    IF n = 0 THEN Zero
    ELSE IF store[n].indexA = a THEN store[n].value1
    ELSE RNeg(store[n].value1)
get_asym1(store, a, b) == Asym1At(store, a, FindPair(store, a, b, 1))

Asym2At(store, a, n) ==
    IF n = 0 THEN Zero
    ELSE IF store[n].indexA = a THEN store[n].value2
    ELSE RNeg(store[n].value2)
get_asym2(store, a, b) == Asym2At(store, a, FindPair(store, a, b, 1))

SetAt(store, a, b, v1, v2, n) ==
    IF n = 0 THEN Append(store, Pair(a, b, v1, v2))
    ELSE [store EXCEPT ![n].value1 = v1, ![n].value2 = v2]
set_sym_pair(store, a, b, v1, v2) ==
    SetAt(store, a, b, v1, v2, FindPair(store, a, b, 1))

Sym1At(store, n) == IF n = 0 THEN Zero ELSE store[n].value1
get_sym1(store, a, b) == Sym1At(store, FindPair(store, a, b, 1))

(* NodeAB::add_asym1 and add_asym2 for the two contributions of r.         *)
AddAsymAt(store, r, n) ==
    IF n = 0 THEN Append(store, r)
    ELSE IF store[n].indexA = r.indexA
        THEN [store EXCEPT ![n].value1 = RAdd(@, r.value1),
                           ![n].value2 = RAdd(@, r.value2)]
    ELSE [store EXCEPT ![n].value1 = RSub(@, r.value1),
                       ![n].value2 = RSub(@, r.value2)]
add_asym(store, r) == AddAsymAt(store, r, FindPair(store, r.indexA, r.indexB, 1))

(* NodeAB::operator*= : both contributions of every record are scaled.     *)
ScaleStore(store, norm) ==
    [n \in 1..Len(store) |->
        [store[n] EXCEPT !.value1 = RMul(@, norm), !.value2 = RMul(@, norm)]]


RECURSIVE RSum(_, _)
RSum(seq, n) == IF n > Len(seq) THEN Zero ELSE RAdd(seq[n], RSum(seq, n + 1))

(***************************************************************************)
(* PhaseField::NormalizeIncrementsSR, the body of the loop over the cells. *)
(***************************************************************************)
(* The loop leaves "if no convergence after 24 iterations".                *)
IterationCap == 24

(* Faulty variants of the steps below.  Each leaves out what one of the    *)
(* properties at the end of the module depends on: the scaling of the      *)
(* single pair, the pinning test, the removal of zero records only, the    *)
(* limiting of a record, the count of the warnings.                        *)
KeepSinglePair(pf, store, dt) == store

NeverOutOfBounds(value, dPsi) == FALSE

RemoveAllSets(store) == <<>>

KeepRecord(pf, limits, r) == [rec |-> r, needed |-> FALSE]

CountOne(tmpPF) == 1

(* case 1: the store holds exactly one pair.  Only region A of the record  *)
(* is looked at.                                                           *)
SinglePairNorm(old_value, valueA, new_value) ==
    IF IsNeg(new_value) THEN RDiv(RNeg(old_value), valueA)
    ELSE IF RLt(One, new_value) THEN RDiv(RSub(One, old_value), valueA)
    ELSE One

ScaleOrClear(store, norm) ==
    IF AboveDblEpsilon(norm) THEN ScaleStore(store, norm) ELSE <<>>

SinglePairLimit(store, old_value, valueA) ==
    IF \/ (old_value = Zero /\ IsNeg(valueA))
       \/ (old_value = One /\ IsPos(valueA))
        THEN <<>>
    ELSE ScaleOrClear(store,
            SinglePairNorm(old_value, valueA, RAdd(old_value, valueA)))

NormalizeSinglePair(pf, store, dt) ==
    SinglePairLimit(store, get_value(pf, store[1].indexA),
                    RMul(RAdd(store[1].value1, store[1].value2), dt))

(* default: the summed pairwise contributions of entry number a.           *)
dPsiAlpha(pf, store, a) ==
    RSum([n \in 1..Len(pf) |->
            IF n = a THEN Zero
            ELSE RAdd(get_asym1(store, pf[a].index, pf[n].index),
                      get_asym2(store, pf[a].index, pf[n].index))], 1)

RECURSIVE ZeroPairsOf(_, _, _, _)
ZeroPairsOf(store, pf, a, n) ==
    IF n > Len(pf) THEN store
    ELSE ZeroPairsOf(IF n = a THEN store
                     ELSE set_sym_pair(store, pf[a].index, pf[n].index, Zero, Zero),
                     pf, a, n + 1)

OutOfBounds(value, dPsi) ==
    \/ (value = Zero /\ IsNeg(dPsi))
    \/ (value = One /\ IsPos(dPsi))

(* "Set out of bounds sets to zero", entry by entry in the node's order.   *)
RECURSIVE PinOutOfBounds(_, _, _)
PinOutOfBounds(store, pf, a) ==
    IF a > Len(pf) THEN store
    ELSE PinOutOfBounds(IF OutOfBounds(pf[a].value, dPsiAlpha(pf, store, a))
                            THEN ZeroPairsOf(store, pf, a, 1)
                        ELSE store,
                        pf, a + 1)

(* "Remove zero-sets from the storage".                                    *)
RemoveZeroSets(store) ==
    SelectSeq(store, LAMBDA r : ~(r.value1 = Zero /\ r.value2 = Zero))

(* "Collect increments": locIncrements.get_sym1(idx,0) and get_sym2(idx,0) *)
posIncrement(store, idx) ==
    RSum([n \in 1..Len(store) |->
            IF IsPos(store[n].value1) /\ store[n].indexA = idx THEN store[n].value1
            ELSE IF IsNeg(store[n].value1) /\ store[n].indexB = idx
                THEN RNeg(store[n].value1)
            ELSE Zero], 1)

negIncrement(store, idx) ==
    RSum([n \in 1..Len(store) |->
            IF IsNeg(store[n].value1) /\ store[n].indexA = idx THEN store[n].value1
            ELSE IF IsPos(store[n].value1) /\ store[n].indexB = idx
                THEN RNeg(store[n].value1)
            ELSE Zero], 1)

newPFvalue(pf, store, dt, idx) ==
    RAdd(get_value(pf, idx),
         RMul(RAdd(posIncrement(store, idx), negIncrement(store, idx)), dt))

(* "Calculate limits" for one entry of the node: lim2 bounds the negative  *)
(* and lim1 the positive increments.  A zero divisor under a value below 0 *)
(* gives +inf in IEEE, and min(1, +inf) = 1; with a zero divisor under a   *)
(* value above 1 no record adds to the entry, so lim1 is never read.       *)
EntryLimits(value, pos, neg, dt, new_value) ==
    [lim2 |-> IF IsNeg(new_value) /\ ~IsZero(neg)
                  THEN RMin(One, RDiv(RNeg(RAdd(value, RMul(pos, dt))),
                                      RMul(neg, dt)))
              ELSE One,
     lim1 |-> IF RLt(One, new_value) /\ ~IsZero(pos)
                  THEN RMin(One, RDiv(RSub(One, RAdd(value, RMul(neg, dt))),
                                      RMul(pos, dt)))
              ELSE One]

locLimits(pf, store, dt) ==
    [n \in 1..Len(pf) |->
        EntryLimits(pf[n].value, posIncrement(store, pf[n].index),
                    negIncrement(store, pf[n].index), dt,
                    newPFvalue(pf, store, dt, pf[n].index))]

(* locLimits.get_sym1(idx,0) and get_sym2(idx,0): an index that is not an  *)
(* entry of the node has no limit record and reads as 0.                   *)
Lim1At(limits, n) == IF n = 0 THEN Zero ELSE limits[n].lim1
Lim2At(limits, n) == IF n = 0 THEN Zero ELSE limits[n].lim2
LimitPos(pf, limits, idx) == Lim1At(limits, FindIndex(pf, idx, 1))
LimitNeg(pf, limits, idx) == Lim2At(limits, FindIndex(pf, idx, 1))

(* "Limit increments" for one record: the two ifs run one after the other, *)
(* the second on the value the first has left.                             *)
LimitNegative(r, tmpLim) ==
    IF IsNeg(r.value1)
        THEN [rec |-> [r EXCEPT !.value1 = RMul(@, tmpLim)],
              needed |-> RLt(tmpLim, One)]
    ELSE [rec |-> r, needed |-> FALSE]

LimitPositive(first, tmpLim) ==
    IF IsPos(first.rec.value1)
        THEN [rec |-> [first.rec EXCEPT !.value1 = RMul(@, tmpLim)],
              needed |-> first.needed \/ RLt(tmpLim, One)]
    ELSE first

LimitRecord(pf, limits, r) ==
    LimitPositive(
        LimitNegative(r, RMin(LimitNeg(pf, limits, r.indexA),
                              LimitPos(pf, limits, r.indexB))),
        RMin(LimitPos(pf, limits, r.indexA), LimitNeg(pf, limits, r.indexB)))

LimitPass(pf, store, limits) ==
    [n \in 1..Len(store) |-> LimitRecord(pf, limits, store[n])]

Scaled(limited) == [n \in 1..Len(limited) |-> limited[n].rec]

(* The while (LimitingNeeded) loop; done is the number of iterations run.  *)
RECURSIVE LimitLoop(_, _, _, _)
LoopEnd(pf, dt, limited, number_of_iterations) ==
    IF /\ \E n \in 1..Len(limited) : limited[n].needed
       /\ ~(number_of_iterations > IterationCap)
        THEN LimitLoop(pf, Scaled(limited), dt, number_of_iterations)
    ELSE [store |-> Scaled(limited), iterations |-> number_of_iterations]

LimitLoop(pf, store, dt, done) ==
    LoopEnd(pf, dt, LimitPass(pf, store, locLimits(pf, store, dt)), done + 1)

(* "Clean up values which are too small".                                  *)
CleanUpSmall(store, dt) ==
    SelectSeq(store, LAMBDA r : ~AbsBelowDblEpsilon(RMul(r.value1, dt)))

AddToBoth(pf, a, b, value) == add_value(add_value(pf, a, value), b, RNeg(value))

(* "End plausibility check": the scratch copy tmpPF of the node.           *)
RECURSIVE ApplyValue1(_, _, _, _)
ApplyValue1(pf, store, dt, n) ==
    IF n > Len(store) THEN pf
    ELSE ApplyValue1(IF store[n].value1 # Zero
                         THEN AddToBoth(pf, store[n].indexA, store[n].indexB,
                                        RMul(store[n].value1, dt))
                     ELSE pf,
                     store, dt, n + 1)

(* it->value < -precision or it->value > 1.0 + precision                   *)
OutsidePrecision(v) == AboveFltEpsilon(RNeg(v)) \/ AboveFltEpsilon(RSub(v, One))

CountOutside(tmpPF) ==
    Cardinality({n \in 1..Len(tmpPF) : OutsidePrecision(tmpPF[n].value)})

(* One WriteWarning call for every entry of tmpPF outside the precision.   *)
PlausibilityWarnings(pf, store, dt) == CountOutside(ApplyValue1(pf, store, dt, 1))

NoLoop(store) == [store |-> store, iterations |-> 0, warnings |-> 0]

Checked(pf, dt, clean, iterations) ==
    [store      |-> clean,
     iterations |-> iterations,
     warnings   |-> PlausibilityWarnings(pf, clean, dt)]

Cleaned(pf, dt, loop) ==
    Checked(pf, dt, CleanUpSmall(loop.store, dt), loop.iterations)

LimitPinned(pf, pinned, dt) ==
    IF Len(pinned) = 0 THEN NoLoop(pinned)
    ELSE Cleaned(pf, dt, LimitLoop(pf, pinned, dt, 0))

(* default: two or more pairs.                                             *)
NormalizeGeneral(pf, store, dt) ==
    LimitPinned(pf, RemoveZeroSets(PinOutOfBounds(store, pf, 1)), dt)

(* The body for one cell: the new store, the iterations its limiting loop  *)
(* ran and the warnings it wrote.                                          *)
NormalizeCell(node, store, dt) ==
    IF ~wide_interface(node) THEN NoLoop(store)
    ELSE IF Len(store) = 0 THEN NoLoop(store)
    ELSE IF Len(store) = 1 THEN NoLoop(NormalizeSinglePair(node.pf, store, dt))
    ELSE NormalizeGeneral(node.pf, store, dt)

(***************************************************************************)
(* The state.                                                              *)
(***************************************************************************)
VARIABLES
    Fields,                \* Storage3D<NodePF>: cell -> node
    FieldsDot,             \* Storage3D<NodeAB>: cell -> increment store
    FieldsProperties,      \* the grain registry: index -> grain record
    PairwiseGrowthFactors, \* NodeAB of damping factors (value1) per pair
    Force,                 \* what the increment producers add per step
    Combine,               \* the Combine setting per thermodynamic phase
    dt,                    \* RTC.dt
    finalizeArg,           \* the finalize argument the driver merges with
    pc,                    \* the driver's position in the time step
    tStep,                 \* RTC.tStep, counted from 0
    number_of_iterations,  \* cell -> iterations of its last limiting loop
    Warnings,              \* cell -> WriteWarning calls of the last pass
    FieldsDR,              \* Storage3D<NodePF> of the fine grid (dual resolution)
    FieldsDotDR,           \* Storage3D<NodeAB> of the fine grid (dual resolution)
    Resolution,            \* Grid.Resolution: "Single" or "Dual"
    pass,                  \* the call of the pass sequence that runs next
    Boundary,              \* the boundary cells of every storage
    Derivatives,           \* the laplacian fields of the nodes of every storage
    ran,                   \* the calls made so far in the current time step
    done,                  \* the cells the running parallel loop has processed
    tmp,                   \* the temporary derivative fields of the nodes
    DEBUG,                 \* whether the build defines DEBUG
    OutputVerbosity,       \* ConsoleOutput::OutputVerbosity, 0 (Silent) .. 3
    LogEnabled,            \* ConsoleOutput::LogEnabled
    LogFile,               \* ConsoleOutput::LogFile and the text of its file
    CoutBuf,               \* ConsoleOutput::CoutBuf
    cout,                  \* the stream buffer std::cout is attached to
    screen,                \* the output that reached the terminal
    calls,                 \* ConsoleOutput calls made so far
    GeneratedNuclei,       \* Nucleation: the generated sites
    NucleiPlanted,         \* Nucleation::NucleiPlanted
    created                \* the site of every registry entry appended

dual == <<FieldsDR, FieldsDotDR>>
passes == <<pass, Boundary, Derivatives, ran, done, tmp>>
console == <<OutputVerbosity, LogEnabled, LogFile, CoutBuf, cout, screen,
             calls>>
nucleation == <<GeneratedNuclei, NucleiPlanted, created>>
services == <<DEBUG, console, nucleation>>

vars == <<Fields, FieldsDot, FieldsProperties, PairwiseGrowthFactors, Force,
          Combine, dt, finalizeArg, pc, tStep, number_of_iterations, Warnings,
          FieldsDR, FieldsDotDR, Resolution, pass, Boundary, Derivatives,
          ran, done, tmp, DEBUG, OutputVerbosity, LogEnabled, LogFile, CoutBuf,
          cout, screen, calls, GeneratedNuclei, NucleiPlanted, created>>

(* ConsoleOutput as the program starts: the initial values of its static   *)
(* members, std::cout on the terminal, nothing written.                    *)
Silent == 0
Warning == 1
Normal == 2
Debug == 3

ClosedFile == [is_open |-> FALSE, fail |-> FALSE, text |-> <<>>]

ConsoleAtStart ==
    /\ OutputVerbosity = Normal
    /\ LogEnabled = FALSE
    /\ LogFile = ClosedFile
    /\ CoutBuf = "nullptr"
    /\ cout = [rdbuf |-> "terminal", bad |-> FALSE]
    /\ screen = <<>>
    /\ calls = 0

(* A run without nucleation sites.                                         *)
NoNucleation ==
    /\ GeneratedNuclei = <<>>
    /\ NucleiPlanted = FALSE
    /\ created = <<>>

(* A build without DEBUG that neither logs nor nucleates.                  *)
ReleaseBuild == DEBUG = FALSE /\ ConsoleAtStart /\ NoNucleation

(* The grid: one row of cells, Grid.dNx = 1, Grid.dNy = Grid.dNz = 0.      *)
Nx == 3
Cells == 1..Nx
Neighbours(c) == {c - 1, c, c + 1} \cap Cells

InRange(v) == RLe(Zero, v) /\ RLe(v, One)
NodeInRange(pf) == \A n \in 1..Len(pf) : InRange(pf[n].value)
AllInRange(F) == \A c \in Cells : NodeInRange(F[c].pf)

(***************************************************************************)
(* The increment producers (DrivingForce::MergePhaseFieldIncrementsSR,     *)
(* DoubleObstacle::CalculatePhaseFieldIncrements): interface cells get     *)
(* their pairwise rates added to FieldsDot.                                *)
(***************************************************************************)
RECURSIVE AddAll(_, _, _)
AddAll(store, rates, n) ==
    IF n > Len(rates) THEN store
    ELSE AddAll(add_asym(store, rates[n]), rates, n + 1)

MergePhaseFieldIncrementsSR(F, Dot, rates) ==
    [c \in Cells |-> IF interface(F[c]) THEN AddAll(Dot[c], rates[c], 1)
                     ELSE Dot[c]]

(***************************************************************************)
(* PhaseField::NormalizeIncrementsSR over the grid.                        *)
(***************************************************************************)
NormalizeIncrementsSR(F, Dot, step) ==
    [c \in Cells |-> NormalizeCell(F[c], Dot[c], step)]

(***************************************************************************)
(* PhaseField::MergeIncrementsSR, the loop over the cells.                 *)
(***************************************************************************)
(* Faulty variant: the damping factor is never applied.                    *)
UndampedFactor(FP, PGF, psi) == One

MergeFactor(FP, PGF, psi) ==
    IF /\ FP[psi.indexA].GrowthConstraintsViolation
       /\ FP[psi.indexB].GrowthConstraintsViolation
        THEN get_sym1(PGF, psi.indexA, psi.indexB)
    ELSE One

MergeValue(pf, psi, value) ==
    IF ~AbsBelowDblEpsilon(value)
        THEN AddToBoth(pf, psi.indexA, psi.indexB, value)
    ELSE pf

RECURSIVE MergeRecords(_, _, _, _, _, _)
MergeRecords(pf, store, step, FP, PGF, n) ==
    IF n > Len(store) THEN pf
    ELSE MergeRecords(
            MergeValue(pf, store[n],
                       RMul(RMul(MergeFactor(FP, PGF, store[n]),
                                 RAdd(store[n].value1, store[n].value2)), step)),
            store, step, FP, PGF, n + 1)

MergeCell(node, store, step, FP, PGF) ==
    IF wide_interface(node)
        THEN [node EXCEPT !.pf = MergeRecords(node.pf, store, step, FP, PGF, 1)]
    ELSE node

ClearCell(node, store, clear) ==
    IF wide_interface(node) /\ clear THEN <<>> ELSE store

(***************************************************************************)
(* The grain registry.  A grain is a record; Stage is one of "Seed",       *)
(* "Nucleus", "Stable"; GrowthConstraintsViolation is TRUE when it is not  *)
(* GrowthConstraintsViolations::None.                                      *)
(***************************************************************************)
Nphases == 2
MaxIndex == 9
Grains == 0..MaxIndex

RECURSIVE SumOver(_, _)
SumOver(f, S) ==
    IF S = {} THEN Zero
    ELSE LET x == CHOOSE y \in S : \A z \in S : y <= z
         IN  RAdd(f[x], SumOver(f, S \ {x}))

GrainVolume(F, idx) == SumOver([c \in Cells |-> get_value(F[c].pf, idx)], Cells)

(* Faulty variant: a grain is made stable as soon as its ratio is 1.       *)
StableAtOne(grain) ==
    IF grain.Exist /\ RLe(grain.Volume, Zero)
        THEN [grain EXCEPT !.Exist = FALSE, !.Stage = "Stable",
                           !.Volume = Zero, !.MAXVolume = Zero,
                           !.VolumeRatio = One]
    ELSE IF IsPos(grain.Volume)
        THEN [grain EXCEPT
                !.Exist = TRUE,
                !.Stage = IF RLe(One, grain.VolumeRatio) THEN "Stable"
                          ELSE IF @ = "Seed" THEN "Nucleus" ELSE @,
                !.VolumeRatio = IF RLe(One, @) THEN One ELSE @]
    ELSE grain

(* Faulty variant: a Nucleus that is still below its reference volume is   *)
(* made a Seed again.                                                      *)
NucleusBackToSeed(grain) ==
    IF grain.Exist /\ RLe(grain.Volume, Zero)
        THEN [grain EXCEPT !.Exist = FALSE, !.Stage = "Stable",
                           !.Volume = Zero, !.MAXVolume = Zero,
                           !.VolumeRatio = One]
    ELSE IF IsPos(grain.Volume)
        THEN [grain EXCEPT
                !.Exist = TRUE,
                !.Stage = IF RLt(One, grain.VolumeRatio) THEN "Stable"
                          ELSE IF @ = "Seed" THEN "Nucleus"
                          ELSE IF @ = "Nucleus" THEN "Seed" ELSE @,
                !.VolumeRatio = IF RLt(One, @) THEN One ELSE @]
    ELSE grain

(* "Update statistics based on actual grains volume" for one grain.       *)
UpdateStatistics(grain) ==
    IF grain.Exist /\ RLe(grain.Volume, Zero)
        THEN [grain EXCEPT !.Exist = FALSE, !.Stage = "Stable",
                           !.Volume = Zero, !.MAXVolume = Zero,
                           !.VolumeRatio = One]
    ELSE IF IsPos(grain.Volume)
        THEN [grain EXCEPT
                !.Exist = TRUE,
                !.Stage = IF RLt(One, grain.VolumeRatio) THEN "Stable"
                          ELSE IF @ = "Seed" THEN "Nucleus" ELSE @,
                !.VolumeRatio = IF RLt(One, @) THEN One ELSE @]
    ELSE grain

(* "Calculate MAXVolume and VolumeRatio for all phase fields".             *)
WithRatio(grain) ==
    [grain EXCEPT !.VolumeRatio = RDiv(grain.MAXVolume, grain.RefVolume)]

WithVolume(grain, Volume) ==
    [grain EXCEPT !.Volume = Volume, !.MAXVolume = RMax(Volume, @)]

CalculateGrainsVolume(F, FP) ==
    [idx \in Grains |->
        UpdateStatistics(WithRatio(WithVolume(FP[idx], GrainVolume(F, idx))))]

FractionsOf(F, FP) ==
    [c \in Cells |-> [p \in 0..(Nphases - 1) |->
        SumOver([n \in 1..Len(F[c].pf) |->
                    IF FP[F[c].pf[n].index].Phase = p THEN F[c].pf[n].value
                    ELSE Zero], 1..Len(F[c].pf))]]

(***************************************************************************)
(* PhaseField::CombinePhaseFields: for a phase with Combine[p] set, every  *)
(* stable grain of the phase is folded into the one of largest volume.     *)
(***************************************************************************)
StableOfPhase(FP, p) ==
    {n \in Grains : FP[n].Exist /\ FP[n].Phase = p /\ FP[n].Stage = "Stable"}

MajorityFound(FP, p) == \E n \in StableOfPhase(FP, p) : IsPos(FP[n].Volume)

MajorityIndex(FP, p) ==
    CHOOSE n \in StableOfPhase(FP, p) :
        \A m \in StableOfPhase(FP, p) :
            \/ RLt(FP[m].Volume, FP[n].Volume)
            \/ (FP[m].Volume = FP[n].Volume /\ n <= m)

ToCombine(FP, p, major, e) ==
    FP[e.index].Phase = p /\ FP[e.index].Stage = "Stable" /\ e.index # major

(* Faulty variant: the values are zeroed and nothing is added.             *)
ZeroedOnly(node, value_to_combine, zeroed, major) ==
    [node EXCEPT !.pf = zeroed]

Moved(node, value_to_combine, zeroed, major) ==
    [node EXCEPT !.pf = IF AboveDblEpsilon(value_to_combine)
                            THEN add_value(zeroed, major, value_to_combine)
                        ELSE zeroed]

CombineNode(node, FP, p, major) ==
    Moved(node,
          SumOver([n \in 1..Len(node.pf) |->
                      IF ToCombine(FP, p, major, node.pf[n])
                          THEN node.pf[n].value ELSE Zero],
                  1..Len(node.pf)),
          [n \in 1..Len(node.pf) |->
              IF ToCombine(FP, p, major, node.pf[n])
                  THEN Entry(node.pf[n].index, Zero) ELSE node.pf[n]],
          major)

RECURSIVE CombinePhases(_, _, _, _)
CombinePhases(F, FP, comb, p) ==
    IF p >= Nphases THEN F
    ELSE CombinePhases(
            IF /\ comb[p]
               /\ MajorityFound(FP, p)
               /\ Cardinality(StableOfPhase(FP, p)) > 1
                THEN [c \in Cells |->
                        CombineNode(F[c], FP, p, MajorityIndex(FP, p))]
            ELSE F,
            FP, comb, p + 1)

CombinePhaseFields(F, FP, comb) == CombinePhases(F, FP, comb, 0)

(***************************************************************************)
(* PhaseField::SetFlagsSR and PhaseField::FinalizeSR.                      *)
(***************************************************************************)
(* Faulty variant: the flag spreads from an interface cell to every cell   *)
(* of the grid instead of its neighbourhood.                               *)
FlagEverywhere(F) ==
    [c \in Cells |->
        IF F[c].flag = 0 /\ \E d \in Cells : F[d].flag = 2
            THEN [F[c] EXCEPT !.flag = 1]
        ELSE F[c]]

SetFlagsSR(F) ==
    [c \in Cells |->
        IF F[c].flag = 0 /\ \E d \in Neighbours(c) : F[d].flag = 2
            THEN [F[c] EXCEPT !.flag = 1]
        ELSE F[c]]

FinalizeSR(F, fin) ==
    SetFlagsSR([c \in Cells |->
                    IF fin /\ wide_interface(F[c]) THEN finalize(F[c])
                    ELSE F[c]])

Finalize(F, FP, comb, fin) == FinalizeSR(CombinePhaseFields(F, FP, comb), fin)

(***************************************************************************)
(* PhaseField::FixSpreading, the loop that zeroes the values below cutoff. *)
(***************************************************************************)
CutSpreading(F, FP, cutoff) ==
    [c \in Cells |->
        [F[c] EXCEPT !.pf =
            [n \in 1..Len(F[c].pf) |->
                IF /\ RLt(F[c].pf[n].value, cutoff)
                   /\ FP[F[c].pf[n].index].Stage = "Stable"
                    THEN Entry(F[c].pf[n].index, Zero)
                ELSE F[c].pf[n]]]]

(***************************************************************************)
(* The runs that are explored.  A run is fixed by the occupancy of cell 1, *)
(* the rates its increment producers add every step, the time step, the    *)
(* finalize option of the merge and the settings of the registry; cell 2   *)
(* is a bulk cell of the first grain of cell 1.                            *)
(***************************************************************************)
MaxSteps == 2      \* time steps per run
MaxRate  == 2      \* |value1| of a produced rate
ValueDen == 4      \* occupancies of the general runs are k/ValueDen

Half == Rat(1, 2)

RECURSIVE NodeOf(_, _)
NodeOf(f, idx) ==
    IF idx > 3 \/ f[idx] = 0 THEN <<>>
    ELSE <<Entry(idx, Rat(f[idx], ValueDen))>> \o NodeOf(f, idx + 1)

(* Cells holding grain 1, grains 1 and 2, or grains 1, 2 and 3.            *)
GeneralNodes ==
    {NodeOf(f, 1) : f \in {g \in [1..3 -> 0..ValueDen] :
                                /\ g[1] + g[2] + g[3] = ValueDen
                                /\ g[1] > 0
                                /\ g[2] = 0 => g[3] = 0}}

(* The rates of a second record and of a redrawn store.                    *)
PinRates == {-MaxRate, -1, 1, MaxRate}

RateRecords ==
    {Pair(ab[1], ab[2], Rat(v1, 1), Rat(v2, 1)) :
        ab \in {<<1, 2>>, <<1, 3>>, <<2, 3>>},
        v1 \in (-MaxRate)..MaxRate, v2 \in 0..1}

Later(r) ==
    {x \in RateRecords : /\ x.value2 = Zero
                         /\ x.value1 \in {Rat(v, 1) : v \in PinRates}
                         /\ \/ x.indexA > r.indexA
                            \/ x.indexA = r.indexA /\ x.indexB > r.indexB}

Stores ==
    {<<>>} \cup {<<r>> : r \in RateRecords}
           \cup UNION {{<<r, q>> : q \in Later(r)} : r \in RateRecords}

Run(pf, rates, step, fin, combine, gcv) ==
    [pf |-> pf, rates |-> rates, dt |-> step, finalize |-> fin,
     combine |-> combine, gcv |-> gcv]

NoFactors == <<>>

GeneralRuns ==
    {Run(pf, st, Half, fin, FALSE, NoFactors) :
        pf \in GeneralNodes, st \in Stores, fin \in BOOLEAN}

(* Runs with Combine set for phase 1 and runs with growth constraints.     *)
CombineRuns ==
    {Run(pf, <<r>>, Half, TRUE, TRUE, NoFactors) :
        pf \in {n \in GeneralNodes : Len(n) = 3},
        r \in {x \in RateRecords : x.value2 = Zero}}

ConstrainedRuns ==
    {Run(pf, <<r>>, Half, TRUE, FALSE, g) :
        pf \in {n \in GeneralNodes : Len(n) >= 2},
        r \in {x \in RateRecords : x.value2 = Zero /\ x.indexA = 1 /\ x.indexB = 2},
        g \in {<<Pair(1, 2, Half, Zero)>>, <<Pair(1, 3, Half, Zero)>>}}

(* Scenario A: {5: 0.6, 9: 0.4}, one pair (5,9) of combined rate +2.0,     *)
(* dt = 0.5.                                                               *)
ScenarioANode == <<Entry(5, Rat(3, 5)), Entry(9, Rat(2, 5))>>
ScenarioARuns ==
    {Run(ScenarioANode, <<Pair(5, 9, Rat(v1, 1), Rat(2 - v1, 1))>>, Half, fin,
         FALSE, NoFactors) : v1 \in 0..2, fin \in BOOLEAN}

(* Scenario B: {1: 0.34, 2: 0.33, 3: 0.33}, three pairs pushing region 1   *)
(* up while regions 2 and 3 lose more than they hold.                      *)
ScenarioBNode == <<Entry(1, Rat(34, 100)), Entry(2, Rat(33, 100)),
                   Entry(3, Rat(33, 100))>>
ScenarioBStores ==
    {<<Pair(1, 2, Rat(a, 1), Rat(e, 1)), Pair(1, 3, Rat(b, 1), Zero),
       Pair(2, 3, Rat(c, 1), Zero)>> :
        a \in 1..MaxRate, b \in 1..MaxRate, c \in {-1, 1}, e \in 0..1}
ScenarioBRuns ==
    {Run(ScenarioBNode, st, step, fin, FALSE, NoFactors) :
        st \in ScenarioBStores, step \in {Half, One}, fin \in BOOLEAN}

(* A five-grain junction of equal occupancies whose limiting loop does not *)
(* settle: every pass limits some record again.                            *)
JunctionNode == [n \in 1..5 |-> Entry(n, Rat(1, 5))]
JunctionStore(seq) ==
    [n \in 1..Len(seq) |-> Pair(seq[n][1], seq[n][2], Rat(seq[n][3], 1), Zero)]
JunctionStores ==
    {JunctionStore(<< <<1, 4, -1>>, <<1, 5, 5>>, <<3, 4, -6>>, <<3, 5, 1>>,
                      <<4, 5, -2>> >>),
     JunctionStore(<< <<1, 2, 2>>, <<1, 5, -6>>, <<2, 4, -6>>, <<2, 5, 6>> >>),
     JunctionStore(<< <<1, 5, 2>>, <<2, 3, 4>>, <<2, 4, -6>>, <<3, 4, 6>>,
                      <<4, 5, -6>> >>),
     JunctionStore(<< <<1, 3, -6>>, <<1, 4, 5>>, <<2, 3, 4>>, <<2, 5, -5>>,
                      <<3, 4, -4>> >>)}
JunctionRuns ==
    {Run(JunctionNode, st, Half, fin, FALSE, NoFactors) :
        st \in JunctionStores, fin \in BOOLEAN}

Runs == GeneralRuns \cup CombineRuns \cup ConstrainedRuns \cup ScenarioARuns
            \cup ScenarioBRuns \cup JunctionRuns

(***************************************************************************)
(* The state after construction and PhaseField::FinalizeInitialization.    *)
(***************************************************************************)
RefVolume == One

FreshGrain(idx, constrained) ==
    [Exist |-> FALSE, Stage |-> "Stable", Volume |-> Zero, MAXVolume |-> Zero,
     RefVolume |-> RefVolume, VolumeRatio |-> Zero, Phase |-> idx % Nphases,
     GrowthConstraintsViolation |-> constrained]

(* The first cell holds the node of the run; the cells next to it are bulk *)
(* of its first grain and the cells further away bulk of its last grain.   *)
BulkOf(pf, c) == IF c = 2 THEN pf[1].index ELSE pf[Len(pf)].index

InitialFields(pf) ==
    FinalizeSR([c \in Cells |->
                    IF c = 1 THEN [flag |-> 2, pf |-> pf]
                    ELSE [flag |-> 2, pf |-> <<Entry(BulkOf(pf, c), One)>>]],
               TRUE)

Init ==
    \E run \in Runs :
        /\ Fields = InitialFields(run.pf)
        /\ FieldsDot = [c \in Cells |-> <<>>]
        /\ FieldsProperties =
                CalculateGrainsVolume(Fields,
                    [idx \in Grains |-> FreshGrain(idx, run.gcv # NoFactors)])
        /\ PairwiseGrowthFactors = run.gcv
        /\ Force = [c \in Cells |-> IF c = 1 THEN run.rates ELSE <<>>]
        /\ dt = run.dt
        /\ finalizeArg = run.finalize
        /\ Combine = [p \in 0..(Nphases - 1) |-> run.combine /\ p = 1]
        /\ pc = "increments"
        /\ tStep = 0
        /\ number_of_iterations = [c \in Cells |-> 0]
        /\ Warnings = [c \in Cells |-> 0]
        /\ FieldsDR = <<>>
        /\ FieldsDotDR = <<>>
        /\ Resolution = "Single"
        /\ pass = 0
        /\ Boundary = <<>>
        /\ Derivatives = <<>>
        /\ ran = <<>>
        /\ done = {}
        /\ tmp = <<>>
        /\ ReleaseBuild

(***************************************************************************)
(* The steps of the time loop, in the order the driver calls them.         *)
(***************************************************************************)
(* The producers compute the rates of a step from the fields of that step. *)
(* A cell that kept an entry at a bound (a merge without finalize leaves   *)
(* entries of value 0 in place) is given the rates of the step before or,  *)
(* once in a run, any store of PinStores.                                  *)
PinStores ==
    {<<Pair(1, 2, Rat(x, 1), Zero), Pair(2, 3, Rat(y, 1), Zero)>> :
        x \in PinRates, y \in PinRates}

AtBound(pf) ==
    /\ Len(pf) >= 2
    /\ \A n \in 1..Len(pf) : pf[n].index <= 3
    /\ \E n \in 1..Len(pf) : pf[n].value = Zero \/ pf[n].value = One

Supply(pf, store) ==
    {store} \cup (IF AtBound(pf) /\ store \notin PinStores THEN PinStores ELSE {})

CalculatePhaseFieldIncrements ==
    /\ pc = "increments"
    /\ tStep < MaxSteps
    /\ AllInRange(Fields)
    /\ \E store \in Supply(Fields[1].pf, Force[1]) :
            Force' = [Force EXCEPT ![1] = store]
    /\ FieldsDot' = MergePhaseFieldIncrementsSR(Fields, FieldsDot, Force')
    /\ pc' = "normalize"
    /\ UNCHANGED <<Fields, FieldsProperties, PairwiseGrowthFactors, dt,
                   finalizeArg, Combine, tStep, number_of_iterations, Warnings>>
    /\ UNCHANGED <<dual, Resolution, passes, services>>

(* The block of NormalizeIncrementsSR under #ifdef DEBUG: in every cell     *)
(* with a flag, one warning for every phase whose fraction, before or      *)
(* after the increments, lies outside [0,1] by more than the precision,    *)
(* and a warning followed by OP_Exit when the fractions do not add up to   *)
(* unity.  Fractions is what CalculateFractions left at the last Finalize. *)
PhaseRate(FP, store, n, psi) ==
    IF FP[store[psi].indexA].Phase = n /\ FP[store[psi].indexB].Phase # n
        THEN store[psi].value1
    ELSE IF FP[store[psi].indexA].Phase # n /\ FP[store[psi].indexB].Phase = n
        THEN RNeg(store[psi].value1)
    ELSE Zero

newfraction(FP, fraction, store, step, n) ==
    RAdd(fraction[n],
         RMul(SumOver([psi \in 1..Len(store) |-> PhaseRate(FP, store, n, psi)],
                      1..Len(store)), step))

BrokenPhases(FP, fraction, store, step) ==
    {n \in 0..(Nphases - 1) :
        \/ OutsidePrecision(newfraction(FP, fraction, store, step, n))
        \/ OutsidePrecision(fraction[n])}

(* Faulty variant: the sum of the fractions is never found off unity.      *)
AlwaysUnity(fraction) == FALSE

(* zero < -precision or zero > precision, zero being 1 - the fractions.    *)
zero(fraction) == RSub(One, SumOver(fraction, 0..(Nphases - 1)))

NotUnity(fraction) ==
    AboveFltEpsilon(RNeg(zero(fraction))) \/ AboveFltEpsilon(zero(fraction))

DebugWarnings(F, FP, Dot, step, c) ==
    IF F[c].flag = 0 THEN 0
    ELSE Cardinality(BrokenPhases(FP, FractionsOf(F, FP)[c], Dot[c], step))
            + (IF NotUnity(FractionsOf(F, FP)[c]) THEN 1 ELSE 0)

Exits(F, FP) ==
    {c \in Cells : F[c].flag # 0 /\ NotUnity(FractionsOf(F, FP)[c])}

(* The cells whose DEBUG block has run when the loop ends or when OP_Exit  *)
(* stops it: all of them, or any of them with one that exits.              *)
Examined(F, FP) ==
    IF Exits(F, FP) = {} THEN {Cells}
    ELSE {S \in SUBSET Cells : S \cap Exits(F, FP) # {}}

NormalizeIncrements ==
    /\ pc = "normalize"
    /\ \E out \in {NormalizeIncrementsSR(Fields, FieldsDot, dt)} :
           /\ FieldsDot' = [c \in Cells |-> out[c].store]
           /\ number_of_iterations' = [c \in Cells |-> out[c].iterations]
           /\ \E S \in (IF DEBUG THEN Examined(Fields, FieldsProperties)
                        ELSE {{}}) :
                Warnings' =
                    [c \in Cells |->
                        out[c].warnings
                            + (IF c \in S
                                THEN DebugWarnings(Fields, FieldsProperties,
                                                   FieldsDot', dt, c)
                               ELSE 0)]
    /\ pc' = IF DEBUG /\ Exits(Fields, FieldsProperties) # {} THEN "exit"
             ELSE "merge"
    /\ UNCHANGED <<Fields, FieldsProperties, PairwiseGrowthFactors, Force, dt,
                   finalizeArg, Combine, tStep>>
    /\ UNCHANGED <<dual, Resolution, passes, services>>

MergeIncrementsSR(F, Dot, step, FP, PGF) ==
    [c \in Cells |-> MergeCell(F[c], Dot[c], step, FP, PGF)]

MergeIncrements ==
    /\ pc = "merge"
    /\ Fields' = Finalize(MergeIncrementsSR(Fields, FieldsDot, dt,
                                            FieldsProperties,
                                            PairwiseGrowthFactors),
                          FieldsProperties, Combine, finalizeArg)
    /\ FieldsProperties' = CalculateGrainsVolume(Fields', FieldsProperties)
    /\ FieldsDot' = [c \in Cells |-> ClearCell(Fields[c], FieldsDot[c], TRUE)]
    /\ pc' = "increments"
    /\ tStep' = tStep + 1
    /\ UNCHANGED <<PairwiseGrowthFactors, Force, dt, finalizeArg, Combine,
                   number_of_iterations, Warnings>>
    /\ UNCHANGED <<dual, Resolution, passes, services>>

CutoffSet == {Rat(3, 10)}

FixSpreading ==
    /\ pc = "increments"
    /\ \E cutoff \in CutoffSet :
        Fields' = Finalize(CutSpreading(Fields, FieldsProperties, cutoff),
                           FieldsProperties, Combine, TRUE)
    /\ FieldsProperties' = CalculateGrainsVolume(Fields', FieldsProperties)
    /\ UNCHANGED <<FieldsDot, PairwiseGrowthFactors, Force, dt, finalizeArg,
                   Combine, pc, tStep, number_of_iterations, Warnings>>
    /\ UNCHANGED <<dual, Resolution, passes, services>>

Next ==
    \/ CalculatePhaseFieldIncrements
    \/ NormalizeIncrements
    \/ MergeIncrements
    \/ FixSpreading

Spec == Init /\ [][Next]_vars

(***************************************************************************)
(* What the properties below talk about.  While pc = "merge" the state     *)
(* holds one normalization from both sides: Fields is the grid it read,    *)
(* Produced(c) the store it was given and FieldsDot[c] the store it left.  *)
(***************************************************************************)
Produced(c) == IF interface(Fields[c]) THEN Force[c] ELSE <<>>

AllSumToOne(F) == \A c \in Cells : NodeSum(F[c].pf) = One

Regions(pf, store) ==
    {pf[n].index : n \in 1..Len(pf)}
        \cup {store[n].indexA : n \in 1..Len(store)}
        \cup {store[n].indexB : n \in 1..Len(store)}

(* The rate a store moves into region idx: both contributions, or value1.  *)
Combined(store, idx) ==
    RSum([n \in 1..Len(store) |->
            IF store[n].indexA = idx
                THEN RAdd(store[n].value1, store[n].value2)
            ELSE IF store[n].indexB = idx
                THEN RNeg(RAdd(store[n].value1, store[n].value2))
            ELSE Zero], 1)

Value1Only(store, idx) ==
    RSum([n \in 1..Len(store) |->
            IF store[n].indexA = idx THEN store[n].value1
            ELSE IF store[n].indexB = idx THEN RNeg(store[n].value1)
            ELSE Zero], 1)

AfterCombined(pf, store, idx) ==
    RAdd(get_value(pf, idx), RMul(Combined(store, idx), dt))

AfterValue1(pf, store, idx) ==
    RAdd(get_value(pf, idx), RMul(Value1Only(store, idx), dt))

StaysInBounds(pf, store) ==
    \A idx \in Regions(pf, store) : InRange(AfterCombined(pf, store, idx))

Normalized(c) == pc = "merge" /\ wide_interface(Fields[c])

(* C1 (bounds invariant).  From a grid whose values lie in [0,1] and sum   *)
(* to 1 in every cell, NormalizeIncrements followed by MergeIncrements     *)
(* leaves every value of every cell in [0,1], whatever the stores hold.    *)
C1_BoundsAfterMerge ==
    [][(pc = "merge" /\ AllInRange(Fields) /\ AllSumToOne(Fields))
            => AllInRange(Fields')]_vars

(* C2 (conservation).  Every step that ends in Finalize (MergeIncrements,  *)
(* FixSpreading) leaves the values of every cell summing to 1 if they      *)
(* summed to 1 before it.                                                  *)
C2_ConservationAfterFinalize ==
    [][AllSumToOne(Fields) => AllSumToOne(Fields')]_vars

(* C3 (single-pair fast path).  When the store given to normalization      *)
(* holds exactly one pair {A,B}, applying the record it leaves (both       *)
(* contributions times dt) keeps region A and region B within [0,1].       *)
C3_SinglePairKeepsBothInBounds ==
    \A c \in Cells :
        (/\ Normalized(c)
         /\ Len(Produced(c)) = 1
         /\ NodeInRange(Fields[c].pf)
         /\ NodeSum(Fields[c].pf) = One)
        => \A n \in 1..Len(FieldsDot[c]) :
            /\ InRange(AfterCombined(Fields[c].pf, FieldsDot[c],
                                     FieldsDot[c][n].indexA))
            /\ InRange(AfterCombined(Fields[c].pf, FieldsDot[c],
                                     FieldsDot[c][n].indexB))

(* C4 as the specification words it: a store whose application (both      *)
(* contributions times dt) keeps every region of the cell within [0,1] is  *)
(* returned unchanged.                                                     *)
C4_InBoundsStoreUnchanged ==
    \A c \in Cells :
        (Normalized(c) /\ StaysInBounds(Fields[c].pf, Produced(c)))
            => FieldsDot[c] = Produced(c)

(* What the general case needs on top of that: it limits value1 alone,     *)
(* drops records whose value1 is zero and zeroes records that name a       *)
(* region the node has no entry for.                                       *)
Settled(pf, store) ==
    Len(store) >= 2 =>
        /\ \A n \in 1..Len(store) :
            /\ store[n].value1 # Zero
            /\ FindIndex(pf, store[n].indexA, 1) # 0
            /\ FindIndex(pf, store[n].indexB, 1) # 0
        /\ \A idx \in Regions(pf, store) : InRange(AfterValue1(pf, store, idx))

(* C4 (idempotence of normalization), amended.  A store whose application  *)
(* keeps every region within [0,1] is returned unchanged if, when it holds *)
(* two or more records, every record has a nonzero value1 and names two    *)
(* entries of the node, and applying value1 alone also keeps every region  *)
(* within [0,1].                                                           *)
C4_Idempotence ==
    \A c \in Cells :
        (/\ Normalized(c)
         /\ StaysInBounds(Fields[c].pf, Produced(c))
         /\ Settled(Fields[c].pf, Produced(c)))
            => FieldsDot[c] = Produced(c)

C4_Witness ==
    \E c \in Cells :
        /\ Normalized(c)
        /\ Len(Produced(c)) >= 2
        /\ StaysInBounds(Fields[c].pf, Produced(c))
        /\ Settled(Fields[c].pf, Produced(c))
        /\ FieldsDot[c] = Produced(c)

(* C5 (fast-path equivalence).  On a store of exactly one record the       *)
(* single-pair case leaves the record the general case would leave.        *)
C5_FastPathEqualsGeneral ==
    \A c \in Cells :
        (Normalized(c) /\ Len(Produced(c)) = 1)
            => FieldsDot[c] = NormalizeGeneral(Fields[c].pf, Produced(c), dt).store

(* A region of the node sits at a bound and the store pushes it further.   *)
PushedAtBound(pf, store, idx) ==
    \/ get_value(pf, idx) = Zero /\ IsNeg(Combined(store, idx))
    \/ get_value(pf, idx) = One /\ IsPos(Combined(store, idx))

Touches(store, idx) ==
    \E n \in 1..Len(store) : store[n].indexA = idx \/ store[n].indexB = idx

(* C6 as the specification words it: in the general case (two or more     *)
(* records) no record that normalization leaves touches a region that sat  *)
(* at 0 with a negative, or at 1 with a positive, summed contribution of   *)
(* the store.                                                              *)
C6_PushedAtBoundIsPinned ==
    \A c \in Cells :
        (Normalized(c) /\ Len(Produced(c)) >= 2)
            => \A a \in 1..Len(Fields[c].pf) :
                PushedAtBound(Fields[c].pf, Produced(c), Fields[c].pf[a].index)
                    => ~Touches(FieldsDot[c], Fields[c].pf[a].index)

(* The sum the pinning step takes: over the records that pair the region   *)
(* with another entry of the node.                                         *)
InNodeSum(pf, store, idx) ==
    RSum([n \in 1..Len(store) |->
            IF FindIndex(pf, store[n].indexA, 1) = 0
               \/ FindIndex(pf, store[n].indexB, 1) = 0 THEN Zero
            ELSE IF store[n].indexA = idx
                THEN RAdd(store[n].value1, store[n].value2)
            ELSE IF store[n].indexB = idx
                THEN RNeg(RAdd(store[n].value1, store[n].value2))
            ELSE Zero], 1)

PushedInNode(pf, store, a) ==
    \/ pf[a].value = Zero /\ IsNeg(InNodeSum(pf, store, pf[a].index))
    \/ pf[a].value = One /\ IsPos(InNodeSum(pf, store, pf[a].index))

FirstPushed(pf, store, a) ==
    /\ PushedInNode(pf, store, a)
    /\ \A b \in 1..(a - 1) : ~PushedInNode(pf, store, b)

(* C6 (pinning), amended.  In the general case the first entry of the node *)
(* that sits at 0 with a negative, or at 1 with a positive, contribution   *)
(* summed over the records pairing it with other entries of the node is    *)
(* touched by no record that normalization leaves.  Later entries are      *)
(* judged against the store as earlier pinning left it.                    *)
C6_Pinning ==
    \A c \in Cells :
        (Normalized(c) /\ Len(Produced(c)) >= 2)
            => \A a \in 1..Len(Fields[c].pf) :
                FirstPushed(Fields[c].pf, Produced(c), a)
                    => ~Touches(FieldsDot[c], Fields[c].pf[a].index)

C6_Witness ==
    \E c \in Cells :
        /\ Normalized(c)
        /\ Len(Produced(c)) >= 2
        /\ \E a \in 1..Len(Fields[c].pf) :
            /\ FirstPushed(Fields[c].pf, Produced(c), a)
            /\ Touches(Produced(c), Fields[c].pf[a].index)
            /\ ~Touches(FieldsDot[c], Fields[c].pf[a].index)
        /\ Len(FieldsDot[c]) >= 1

(* C7 (iteration cap).  The limiting loop of a cell runs at most 24 times. *)
C7_AtMost24Iterations ==
    \A c \in Cells : number_of_iterations[c] <= 24

(* The regions the plausibility check would warn about: those that value1  *)
(* of the store left, times dt, takes outside [0,1] by more than the       *)
(* precision.                                                              *)
Implausible(pf, store) ==
    {idx \in Regions(pf, store) : OutsidePrecision(AfterValue1(pf, store, idx))}

(* A cell of more than two records whose limiting loop ran into the cap.   *)
NotConverged(c) ==
    /\ Normalized(c)
    /\ Len(Produced(c)) > 2
    /\ number_of_iterations[c] > IterationCap

ScenarioB(c) ==
    /\ Normalized(c)
    /\ Fields[c].pf = ScenarioBNode
    /\ Produced(c) \in ScenarioBStores
    /\ IsPos(Combined(Produced(c), 1))
    /\ IsNeg(AfterCombined(ScenarioBNode, Produced(c), 2))
    /\ IsNeg(AfterCombined(ScenarioBNode, Produced(c), 3))

(* value1 the store holds for the pair of record r.                        *)
Left(store, r) == get_asym1(store, r.indexA, r.indexB)

(* C9 as the specification words it: the three contributions are scaled by *)
(* one common factor.                                                      *)
C9_ScaledProportionally ==
    \A c \in Cells :
        ScenarioB(c)
            => \A n, m \in 1..3 :
                RMul(Left(FieldsDot[c], Produced(c)[n]), Produced(c)[m].value1)
                    = RMul(Left(FieldsDot[c], Produced(c)[m]), Produced(c)[n].value1)

(* value1 of record r was scaled by a factor of [0,1].                     *)
ScaledDown(store, r) ==
    \/ Left(store, r) = Zero
    \/ /\ IsPos(RDiv(Left(store, r), r.value1))
       /\ RLe(RDiv(Left(store, r), r.value1), One)

(* C9 (Scenario B), amended.  Normalization scales value1 of each of the   *)
(* three records by a factor of [0,1] of its own and leaves value2 as it   *)
(* was; value1 of the store it leaves, times dt, keeps every region within *)
(* [0,1]; after the merge the values of the cell sum to 1.                 *)
C9_ScenarioB ==
    [][ScenarioB(1)
        => /\ \A n \in 1..3 : ScaledDown(FieldsDot[1], Produced(1)[n])
           /\ \A n \in 1..Len(FieldsDot[1]) :
                \E m \in 1..3 :
                    /\ FieldsDot[1][n].indexA = Produced(1)[m].indexA
                    /\ FieldsDot[1][n].indexB = Produced(1)[m].indexB
                    /\ FieldsDot[1][n].value2 = Produced(1)[m].value2
           /\ \A idx \in 1..3 :
                InRange(AfterValue1(ScenarioBNode, FieldsDot[1], idx))
           /\ NodeSum(Fields'[1].pf) = One]_vars

C9_Witness ==
    /\ pc = "increments"
    /\ tStep = 1
    /\ Force[1] \in ScenarioBStores
    /\ IsNeg(AfterCombined(ScenarioBNode, Force[1], 2))
    /\ IsNeg(AfterCombined(ScenarioBNode, Force[1], 3))
    /\ Fields[1].pf # ScenarioBNode
    /\ get_value(Fields[1].pf, 2) = Zero
    /\ NodeInRange(Fields[1].pf)
    /\ NodeSum(Fields[1].pf) = One

(* Scenario A: the cell {5: 0.6, 9: 0.4}, one pair (5,9) of combined rate  *)
(* +2.0, dt = 0.5.                                                         *)
ScenarioA(c) ==
    /\ Normalized(c)
    /\ Fields[c].pf = ScenarioANode
    /\ Len(Produced(c)) = 1
    /\ Produced(c)[1].indexA = 5
    /\ Produced(c)[1].indexB = 9
    /\ Combined(Produced(c), 5) = Rat(2, 1)
    /\ dt = Half

(* C10 (Scenario A).  Normalization followed by the merge leaves region 5  *)
(* at 1 and region 9 at 0.                                                 *)
C10_ScenarioA ==
    [][ScenarioA(1)
        => /\ get_value(Fields'[1].pf, 5) = One
           /\ get_value(Fields'[1].pf, 9) = Zero]_vars

C10_Witness ==
    /\ pc = "increments"
    /\ tStep = 1
    /\ Len(Force[1]) = 1
    /\ Combined(Force[1], 5) = Rat(2, 1)
    /\ get_value(Fields[1].pf, 5) = One
    /\ get_value(Fields[1].pf, 9) = Zero

(* Scenario C: a bulk cell (one region of value 1.0) with an empty store.  *)
BulkCell(c) ==
    /\ Len(Fields[c].pf) = 1
    /\ Fields[c].pf[1].value = One
    /\ FieldsDot[c] = <<>>
    /\ Produced(c) = <<>>

(* C11 as the specification words it: every step leaves the node of a bulk *)
(* cell with an empty store as it was, and wide_interface() is false for   *)
(* the cell before and after the step.                                     *)
C11_BulkCellUntouched ==
    [][\A c \in Cells :
        BulkCell(c) => /\ Fields'[c].pf = Fields[c].pf
                       /\ ~wide_interface(Fields[c])
                       /\ ~wide_interface(Fields'[c])]_vars

(* No cell of the flagging neighbourhood of c is an interface cell.        *)
AwayFromInterface(c) == \A d \in Neighbours(c) : Fields[d].flag # 2

(* CombinePhaseFields would fold the region of the bulk cell c into the    *)
(* majority grain of its phase.                                            *)
Folded(c, p) ==
    /\ Combine[p]
    /\ MajorityFound(FieldsProperties, p)
    /\ Cardinality(StableOfPhase(FieldsProperties, p)) > 1
    /\ ToCombine(FieldsProperties, p, MajorityIndex(FieldsProperties, p),
                 Fields[c].pf[1])

(* C11 (Scenario C), amended.  A bulk cell with an empty store that has no *)
(* interface cell in its flagging neighbourhood, and whose region phase    *)
(* combining does not fold into another grain, keeps its node through      *)
(* every step, and wide_interface() is false for it before and after.  A   *)
(* bulk cell next to an interface cell keeps its node too, but is flagged. *)
C11_ScenarioC ==
    [][\A c \in Cells :
        (BulkCell(c) /\ \A p \in 0..(Nphases - 1) : ~Folded(c, p))
            => /\ Fields'[c].pf = Fields[c].pf
               /\ AwayFromInterface(c)
                    => (~wide_interface(Fields[c]) /\ ~wide_interface(Fields'[c]))]_vars

C11_Witness ==
    /\ tStep >= 1
    /\ pc = "increments"
    /\ interface(Fields[1])
    /\ \E c \in Cells :
        /\ BulkCell(c)
        /\ AwayFromInterface(c)
        /\ ~wide_interface(Fields[c])
        /\ \A p \in 0..(Nphases - 1) : ~Folded(c, p)
    /\ \E c \in Cells : BulkCell(c) /\ Fields[c].flag = 1

(* The factor the merge formula names for record r: the supplied per-pair  *)
(* factor when both regions have a growth-constraint violation, else 1.    *)
Damping(r) ==
    IF /\ FieldsProperties[r.indexA].GrowthConstraintsViolation
       /\ FieldsProperties[r.indexB].GrowthConstraintsViolation
        THEN get_sym1(PairwiseGrowthFactors, r.indexA, r.indexB)
    ELSE One

(* factor*(value1+value2) summed into region idx over the store.           *)
DampedRate(store, idx) ==
    RSum([n \in 1..Len(store) |->
            IF store[n].indexA = idx
                THEN RMul(Damping(store[n]),
                          RAdd(store[n].value1, store[n].value2))
            ELSE IF store[n].indexB = idx
                THEN RNeg(RMul(Damping(store[n]),
                               RAdd(store[n].value1, store[n].value2)))
            ELSE Zero], 1)

FineCells == 1..(2 * Nx)
FineNeighbours(f) == {f - 1, f, f + 1} \cap FineCells

(* fx*i + (di+1)/2 for the cell i = c - 1 counted from 0, di in {-1, +1}.   *)
Child(c, di) == 2 * (c - 1) + ((di + 1) \div 2) + 1
Parent(f) == (f + 1) \div 2
Side(f) == IF f % 2 = 1 THEN -1 ELSE 1

(* norm = 1.0/pow(2.0, Grid.Active()) with one active dimension.           *)
CoarsenNorm == Rat(1, 2)

(* NodePF::operator+= and NodePF::operator*=.                              *)
RECURSIVE AddNode(_, _, _)
AddNode(pf, other, n) ==
    IF n > Len(other) THEN pf
    ELSE AddNode(add_value(pf, other[n].index, other[n].value), other, n + 1)

ScaleNode(pf, factor) ==
    [n \in 1..Len(pf) |-> Entry(pf[n].index, RMul(pf[n].value, factor))]

(* Faulty variant: the children are summed and never averaged.             *)
SumOfChildren(DR, c) ==
    AddNode(AddNode(<<>>, DR[Child(c, -1)].pf, 1), DR[Child(c, 1)].pf, 1)

(* PhaseField::Coarsen.                                                    *)
CoarsenNode(DR, c) ==
    ScaleNode(AddNode(AddNode(<<>>, DR[Child(c, -1)].pf, 1),
                      DR[Child(c, 1)].pf, 1),
              CoarsenNorm)

Coarsen(F, DR) ==
    [c \in Cells |->
        IF wide_interface(F[c])
            THEN finalize([flag |-> 0, pf |-> CoarsenNode(DR, c)])
        ELSE F[c]]

(* PhaseField::CoarsenDot.                                                 *)
CoarsenDotCell(DotDR, c) ==
    ScaleStore(AddAll(AddAll(<<>>, DotDR[Child(c, -1)], 1),
                      DotDR[Child(c, 1)], 1),
               CoarsenNorm)

CoarsenDot(F, Dot, DotDR) ==
    [c \in Cells |->
        IF wide_interface(F[c]) THEN CoarsenDotCell(DotDR, c) ELSE Dot[c]]

(* BoundaryConditions::SetX: the boundary cell on either side of the row   *)
(* becomes a copy of the cell at that edge (no-flux boundary conditions).  *)
BoundaryOf(F) == <<F[1], F[Len(F)]>>

(* A storage with its boundary cells: cell 0, the cells, cell Len(F) + 1.  *)
Padded(F, B) ==
    [c \in 0..(Len(F) + 1) |->
        IF c = 0 THEN B[1] ELSE IF c = Len(F) + 1 THEN B[2] ELSE F[c]]

(* Storage3D::at(i + di*0.25): linear sampling between the cell and its    *)
(* neighbour on the side of the child.                                     *)
at(P, c, di) ==
    AddNode(ScaleNode(P[c].pf, Rat(3, 4)), ScaleNode(P[c + di].pf, Rat(1, 4)), 1)

(* Faulty variant: the children are sampled on the far side of the cell.   *)
RefineFarSide(P) ==
    [f \in FineCells |->
        finalize([flag |-> 0, pf |-> at(P, Parent(f), 0 - Side(f))])]

(* PhaseField::Refine, reading the coarse storage with its boundary cells. *)
Refine(P) ==
    [f \in FineCells |-> finalize([flag |-> 0, pf |-> at(P, Parent(f), Side(f))])]

(* PhaseField::SetFlagsDR.                                                 *)
SetFlagsDR(DR) ==
    [f \in FineCells |->
        IF DR[f].flag = 0 /\ \E d \in FineNeighbours(f) : DR[d].flag = 2
            THEN [DR[f] EXCEPT !.flag = 1]
        ELSE DR[f]]

(* PhaseField::CombinePhaseFields over the cells of any storage (the loop  *)
(* of case Resolutions::Dual runs over FieldsDR, boundary cells included). *)
RECURSIVE CombineStorage(_, _, _, _)
CombineStorage(S, FP, comb, p) ==
    IF p >= Nphases THEN S
    ELSE CombineStorage(
            IF /\ comb[p]
               /\ MajorityFound(FP, p)
               /\ Cardinality(StableOfPhase(FP, p)) > 1
                THEN [f \in DOMAIN S |->
                        CombineNode(S[f], FP, p, MajorityIndex(FP, p))]
            ELSE S,
            FP, comb, p + 1)

(* PhaseField::FinalizeDR: the fine grid after its finalize and flags, and *)
(* the coarse grid after Coarsen and its flags.                            *)
FinalizedDR(DR, fin) ==
    SetFlagsDR([f \in FineCells |->
                    IF fin /\ wide_interface(DR[f]) THEN finalize(DR[f])
                    ELSE DR[f]])

FinalizeDR(F, DR, fin) ==
    [fine |-> FinalizedDR(DR, fin),
     coarse |-> SetFlagsSR(Coarsen(F, FinalizedDR(DR, fin)))]

(* DrivingForce::MergePhaseFieldIncrementsDR: the pairs of an interface    *)
(* cell are pairs of its own entries.                                      *)
OwnPairs(pf, rates) ==
    SelectSeq(rates, LAMBDA r : /\ FindIndex(pf, r.indexA, 1) # 0
                                /\ FindIndex(pf, r.indexB, 1) # 0)

MergePhaseFieldIncrementsDR(DR, DotDR, rates) ==
    [f \in FineCells |->
        IF interface(DR[f])
            THEN AddAll(DotDR[f], OwnPairs(DR[f].pf, rates[f]), 1)
        ELSE DotDR[f]]

(* PhaseField::NormalizeIncrementsDR and PhaseField::MergeIncrementsDR,    *)
(* the loops over the fine cells.                                          *)
NormalizeIncrementsDR(DR, DotDR, step) ==
    [f \in FineCells |-> NormalizeCell(DR[f], DotDR[f], step)]

MergeIncrementsDR(DR, DotDR, step, FP, PGF) ==
    [f \in FineCells |-> MergeCell(DR[f], DotDR[f], step, FP, PGF)]

(* The dual-resolution runs: the coarse grid of a run with an interface    *)
(* in its first cell, refined by PhaseField::FinalizeInitialization.       *)
DualStores ==
    {<<r>> : r \in {x \in RateRecords : x.value2 = Zero /\ x.value1 # Zero}}

DualRuns ==
    {Run(pf, st, Half, fin, FALSE, NoFactors) :
        pf \in {n \in GeneralNodes : Len(n) >= 2}, st \in DualStores,
        fin \in BOOLEAN}

InitDR ==
    \E run \in DualRuns :
        /\ \E out \in {FinalizeDR(InitialFields(run.pf),
                                   Refine(Padded(InitialFields(run.pf),
                                       BoundaryOf(InitialFields(run.pf)))),
                                   TRUE)} :
               /\ FieldsDR = out.fine
               /\ Fields = out.coarse
        /\ FieldsDot = [c \in Cells |-> <<>>]
        /\ FieldsDotDR = [f \in FineCells |-> <<>>]
        /\ FieldsProperties =
                CalculateGrainsVolume(Fields,
                    [idx \in Grains |-> FreshGrain(idx, FALSE)])
        /\ PairwiseGrowthFactors = run.gcv
        /\ Force = [f \in FineCells |-> run.rates]
        /\ dt = run.dt
        /\ finalizeArg = run.finalize
        /\ Combine = [p \in 0..(Nphases - 1) |-> FALSE]
        /\ pc = "increments"
        /\ tStep = 0
        /\ number_of_iterations = [f \in FineCells |-> 0]
        /\ Warnings = [f \in FineCells |-> 0]
        /\ Resolution = "Dual"
        /\ pass = 0
        /\ Boundary = <<>>
        /\ Derivatives = <<>>
        /\ ran = <<>>
        /\ done = {}
        /\ tmp = <<>>
        /\ ReleaseBuild

CalculatePhaseFieldIncrementsDR ==
    /\ pc = "increments"
    /\ tStep < MaxSteps
    /\ FieldsDotDR' = MergePhaseFieldIncrementsDR(FieldsDR, FieldsDotDR, Force)
    /\ pc' = "normalize"
    /\ UNCHANGED <<Fields, FieldsDot, FieldsDR, FieldsProperties,
                   PairwiseGrowthFactors, Force, dt, finalizeArg, Combine,
                   tStep, number_of_iterations, Warnings>>
    /\ UNCHANGED <<Resolution, passes, services>>

(* NormalizeIncrementsDR ends with CoarsenDot().                           *)
NormalizeIncrementsDual ==
    /\ pc = "normalize"
    /\ \E out \in {NormalizeIncrementsDR(FieldsDR, FieldsDotDR, dt)} :
           /\ FieldsDotDR' = [f \in FineCells |-> out[f].store]
           /\ number_of_iterations' = [f \in FineCells |-> out[f].iterations]
           /\ Warnings' = [f \in FineCells |-> out[f].warnings]
    /\ FieldsDot' = CoarsenDot(Fields, FieldsDot, FieldsDotDR')
    /\ pc' = "merge"
    /\ UNCHANGED <<Fields, FieldsDR, FieldsProperties, PairwiseGrowthFactors,
                   Force, dt, finalizeArg, Combine, tStep>>
    /\ UNCHANGED <<Resolution, passes, services>>

(* MergeIncrementsDR clears FieldsDotDR and calls Finalize(BC, finalize).  *)
MergeIncrementsDual ==
    /\ pc = "merge"
    /\ \E out \in {FinalizeDR(Fields,
                       CombineStorage(
                           MergeIncrementsDR(FieldsDR, FieldsDotDR, dt,
                                             FieldsProperties,
                                             PairwiseGrowthFactors),
                           FieldsProperties, Combine, 0),
                       finalizeArg)} :
           /\ FieldsDR' = out.fine
           /\ Fields' = out.coarse
    /\ FieldsProperties' = CalculateGrainsVolume(Fields', FieldsProperties)
    /\ FieldsDotDR' = [f \in FineCells |->
                          ClearCell(FieldsDR[f], FieldsDotDR[f], TRUE)]
    /\ pc' = "increments"
    /\ tStep' = tStep + 1
    /\ UNCHANGED <<FieldsDot, PairwiseGrowthFactors, Force, dt, finalizeArg,
                   Combine, number_of_iterations, Warnings>>
    /\ UNCHANGED <<Resolution, passes, services>>

NextDR ==
    \/ CalculatePhaseFieldIncrementsDR
    \/ NormalizeIncrementsDual
    \/ MergeIncrementsDual

SpecDR == InitDR /\ [][NextDR]_vars

(***************************************************************************)
(* The run call by call.  Every storage has one boundary cell on either    *)
(* side of the row (Bcells = 1); Boundary holds them per storage and       *)
(* Derivatives the laplacian of every node, boundary cells included.  A    *)
(* run is PhaseField::FinalizeInitialization followed by the time loop.    *)
(***************************************************************************)
EmptyNode == [flag |-> 0, pf |-> <<>>]

(* LaplacianStencil1D_3.                                                   *)
LStencil ==
    <<[di |-> -1, weight |-> One], [di |-> 0, weight |-> Rat(-2, 1)],
      [di |-> 1, weight |-> One]>>

(* Faulty variant: the laplacian is taken from the cell alone.             *)
OwnCellOnly(lap, P, c, scale, s) ==
    [n \in 1..Len(P[c].pf) |-> Entry(P[c].pf[n].index, Zero)]

(* The loop over the entries of one stencil cell: add_laplacian_tmp for    *)
(* every entry whose value is not 0.0.                                     *)
RECURSIVE AddWeighted(_, _, _, _)
AddWeighted(lap, pf, weight, n) ==
    IF n > Len(pf) THEN lap
    ELSE AddWeighted(IF pf[n].value # Zero
                         THEN add_value(lap, pf[n].index,
                                        RMul(weight, pf[n].value))
                     ELSE lap,
                     pf, weight, n + 1)

RECURSIVE StencilSum(_, _, _, _, _)
StencilSum(lap, P, c, scale, s) ==
    IF s > Len(LStencil) THEN lap
    ELSE StencilSum(AddWeighted(lap, P[c + LStencil[s].di].pf,
                                RMul(scale, LStencil[s].weight), 1),
                    P, c, scale, s + 1)

(* PhaseField::CalculateDerivativesSR (scale 1) and CalculateDerivativesDR *)
(* (scale 4): the laplacian of the wide-interface cells.                   *)
CalculateDerivatives(F, B, D, scale) ==
    [c \in DOMAIN D |->
        IF c \in DOMAIN F /\ wide_interface(F[c])
            THEN StencilSum(<<>>, Padded(F, B), c, scale, 1)
        ELSE D[c]]

(* BoundaryConditions::SetX on the derivative fields of the nodes.         *)
SyncDerivatives(D, n) == [D EXCEPT ![0] = D[1], ![n + 1] = D[n]]

(* The flag SetFlagsSR / SetFlagsDR write into a boundary cell.            *)
FlagFrom(ghost, edge) ==
    IF ghost.flag = 0 /\ edge.flag = 2 THEN [ghost EXCEPT !.flag = 1]
    ELSE ghost

BoundaryFlags(F, B) == <<FlagFrom(B[1], F[1]), FlagFrom(B[2], F[Len(F)])>>

(* The loop of FinalizeSR / FinalizeDR that finalizes the nodes.           *)
FinalizeLoop(F, fin) ==
    [c \in DOMAIN F |->
        IF fin /\ wide_interface(F[c]) THEN finalize(F[c]) ELSE F[c]]

(* The calls of FinalizeSR, FinalizeDR, Finalize, FinalizeInitialization   *)
(* and of one time step of the driver, in the order of the source.         *)
FinalizeSRCalls ==
    <<"FinalizeLoopSR", "SetBoundaryConditionsSR", "SetFlagsSR",
      "SetBoundaryConditionsSR", "CalculateDerivativesSR",
      "SetBoundaryConditionsSR", "CalculateGrainsVolume">>

FinalizeDRCalls ==
    <<"FinalizeLoopDR", "SetBoundaryConditionsDR", "SetFlagsDR",
      "CalculateDerivativesDR", "SetBoundaryConditionsDR", "Coarsen",
      "SetBoundaryConditionsSR", "SetFlagsSR", "SetBoundaryConditionsSR",
      "CalculateDerivativesSR", "CalculateGrainsVolume">>

FinalizeCalls(res) ==
    <<"CombinePhaseFields">>
        \o (IF res = "Single" THEN FinalizeSRCalls ELSE FinalizeDRCalls)

InitializationCalls(res) ==
    FinalizeSRCalls
        \o (IF res = "Dual" THEN <<"Refine">> \o FinalizeDRCalls ELSE <<>>)

TimeStepCalls(res) ==
    IF res = "Single"
        THEN <<"CalculatePhaseFieldIncrements", "NormalizeLoopSR",
               "SetIncrementsBoundaryConditionsSR", "MergeLoopSR">>
                \o FinalizeCalls(res)
    ELSE <<"CalculatePhaseFieldIncrements", "NormalizeLoopDR", "CoarsenDot",
           "SetIncrementsBoundaryConditionsSR", "MergeLoopDR">>
                \o FinalizeCalls(res)

Calls(res) == InitializationCalls(res) \o TimeStepCalls(res)
StepStart(res) == Len(InitializationCalls(res)) + 1

(* Faulty variant: the driver merges right after collecting the            *)
(* increments.                                                             *)
SkipNormalization(res, p) ==
    IF p = Len(Calls(res)) THEN StepStart(res)
    ELSE IF p = StepStart(res)
        THEN CHOOSE k \in (p + 1)..Len(Calls(res)) :
                Calls(res)[k] \in {"MergeLoopSR", "MergeLoopDR"}
    ELSE p + 1

(* The call after call p: the time loop starts over after its last call.   *)
NextCall(res, p) == IF p = Len(Calls(res)) THEN StepStart(res) ELSE p + 1

Due(call) == tStep < MaxSteps /\ Calls(Resolution)[pass] = call

Advance ==
    /\ pass' = NextCall(Resolution, pass)
    /\ ran' = IF pass < StepStart(Resolution) \/ pass = Len(Calls(Resolution))
                THEN <<>>
              ELSE Append(ran, Calls(Resolution)[pass])
    /\ tStep' = IF pass = Len(Calls(Resolution)) THEN tStep + 1 ELSE tStep

(* finalize is true in FinalizeInitialization.                             *)
FinalizeNow == pass < StepStart(Resolution) \/ finalizeArg

fixed == <<PairwiseGrowthFactors, Force, Combine, dt, finalizeArg, pc,
           Resolution, done, tmp, services>>

(* The fields as the initialization found them, before                     *)
(* FinalizeInitialization.                                                 *)
RawFields(pf) ==
    [c \in Cells |->
        IF c = 1 THEN [flag |-> 2, pf |-> pf]
        ELSE [flag |-> 2, pf |-> <<Entry(BulkOf(pf, c), One)>>]]

PassRuns == {r \in DualRuns : r.rates[1].value1 \in {Rat(v, 1) : v \in PinRates}}

InitPass ==
    \E run \in PassRuns, res \in {"Single", "Dual"} :
        /\ Resolution = res
        /\ Fields = RawFields(run.pf)
        /\ FieldsDot = [c \in Cells |-> <<>>]
        /\ FieldsDR = IF res = "Dual" THEN [f \in FineCells |-> EmptyNode]
                      ELSE <<>>
        /\ FieldsDotDR = IF res = "Dual" THEN [f \in FineCells |-> <<>>]
                         ELSE <<>>
        /\ Boundary =
            [Fields |-> <<EmptyNode, EmptyNode>>,
             FieldsDot |-> <<<<>>, <<>>>>,
             FieldsDR |-> IF res = "Dual" THEN <<EmptyNode, EmptyNode>>
                          ELSE <<>>,
             FieldsDotDR |-> IF res = "Dual" THEN <<<<>>, <<>>>> ELSE <<>>]
        /\ Derivatives =
            [Fields |-> [c \in 0..(Nx + 1) |-> <<>>],
             FieldsDR |-> IF res = "Dual"
                              THEN [f \in 0..(2 * Nx + 1) |-> <<>>]
                          ELSE <<>>]
        /\ FieldsProperties = [idx \in Grains |-> FreshGrain(idx, FALSE)]
        /\ PairwiseGrowthFactors = run.gcv
        /\ Force = IF res = "Dual" THEN [f \in FineCells |-> run.rates]
                   ELSE [c \in Cells |-> IF c = 1 THEN run.rates ELSE <<>>]
        /\ dt = run.dt
        /\ finalizeArg = run.finalize
        /\ Combine = [p \in 0..(Nphases - 1) |-> FALSE]
        /\ pc = "increments"
        /\ pass = 1
        /\ ran = <<>>
        /\ done = {}
        /\ tmp = <<>>
        /\ ReleaseBuild
        /\ tStep = 0
        /\ number_of_iterations =
                [c \in (IF res = "Dual" THEN FineCells ELSE Cells) |-> 0]
        /\ Warnings = [c \in (IF res = "Dual" THEN FineCells ELSE Cells) |-> 0]

FinalizeLoopSRPass ==
    /\ Due("FinalizeLoopSR")
    /\ Fields' = FinalizeLoop(Fields, FinalizeNow)
    /\ Advance
    /\ UNCHANGED <<FieldsDot, FieldsDR, FieldsDotDR, FieldsProperties,
                   Boundary, Derivatives, number_of_iterations, Warnings,
                   fixed>>

FinalizeLoopDRPass ==
    /\ Due("FinalizeLoopDR")
    /\ FieldsDR' = FinalizeLoop(FieldsDR, FinalizeNow)
    /\ Advance
    /\ UNCHANGED <<Fields, FieldsDot, FieldsDotDR, FieldsProperties,
                   Boundary, Derivatives, number_of_iterations, Warnings,
                   fixed>>

SetBoundaryConditionsSRPass ==
    /\ Due("SetBoundaryConditionsSR")
    /\ Boundary' = [Boundary EXCEPT !.Fields = BoundaryOf(Fields)]
    /\ Derivatives' = [Derivatives EXCEPT !.Fields = SyncDerivatives(@, Nx)]
    /\ Advance
    /\ UNCHANGED <<Fields, FieldsDot, FieldsDR, FieldsDotDR, FieldsProperties,
                   number_of_iterations, Warnings, fixed>>

SetBoundaryConditionsDRPass ==
    /\ Due("SetBoundaryConditionsDR")
    /\ Boundary' = [Boundary EXCEPT !.FieldsDR = BoundaryOf(FieldsDR)]
    /\ Derivatives' =
            [Derivatives EXCEPT !.FieldsDR = SyncDerivatives(@, 2 * Nx)]
    /\ Advance
    /\ UNCHANGED <<Fields, FieldsDot, FieldsDR, FieldsDotDR, FieldsProperties,
                   number_of_iterations, Warnings, fixed>>

SetFlagsSRPass ==
    /\ Due("SetFlagsSR")
    /\ Fields' = SetFlagsSR(Fields)
    /\ Boundary' = [Boundary EXCEPT !.Fields = BoundaryFlags(Fields, @)]
    /\ Advance
    /\ UNCHANGED <<FieldsDot, FieldsDR, FieldsDotDR, FieldsProperties,
                   Derivatives, number_of_iterations, Warnings, fixed>>

SetFlagsDRPass ==
    /\ Due("SetFlagsDR")
    /\ FieldsDR' = SetFlagsDR(FieldsDR)
    /\ Boundary' = [Boundary EXCEPT !.FieldsDR = BoundaryFlags(FieldsDR, @)]
    /\ Advance
    /\ UNCHANGED <<Fields, FieldsDot, FieldsDotDR, FieldsProperties,
                   Derivatives, number_of_iterations, Warnings, fixed>>

CalculateDerivativesSRPass ==
    /\ Due("CalculateDerivativesSR")
    /\ Derivatives' =
        [Derivatives EXCEPT
            !.Fields = CalculateDerivatives(Fields, Boundary.Fields, @, One)]
    /\ Advance
    /\ UNCHANGED <<Fields, FieldsDot, FieldsDR, FieldsDotDR, FieldsProperties,
                   Boundary, number_of_iterations, Warnings, fixed>>

CalculateDerivativesDRPass ==
    /\ Due("CalculateDerivativesDR")
    /\ Derivatives' =
        [Derivatives EXCEPT
            !.FieldsDR = CalculateDerivatives(FieldsDR, Boundary.FieldsDR, @,
                                              Rat(4, 1))]
    /\ Advance
    /\ UNCHANGED <<Fields, FieldsDot, FieldsDR, FieldsDotDR, FieldsProperties,
                   Boundary, number_of_iterations, Warnings, fixed>>

CalculateGrainsVolumePass ==
    /\ Due("CalculateGrainsVolume")
    /\ FieldsProperties' = CalculateGrainsVolume(Fields, FieldsProperties)
    /\ Advance
    /\ UNCHANGED <<Fields, FieldsDot, FieldsDR, FieldsDotDR, Boundary,
                   Derivatives, number_of_iterations, Warnings, fixed>>

RefinePass ==
    /\ Due("Refine")
    /\ FieldsDR' = Refine(Padded(Fields, Boundary.Fields))
    /\ Advance
    /\ UNCHANGED <<Fields, FieldsDot, FieldsDotDR, FieldsProperties,
                   Boundary, Derivatives, number_of_iterations, Warnings,
                   fixed>>

CoarsenPass ==
    /\ Due("Coarsen")
    /\ Fields' = Coarsen(Fields, FieldsDR)
    /\ Advance
    /\ UNCHANGED <<FieldsDot, FieldsDR, FieldsDotDR, FieldsProperties,
                   Boundary, Derivatives, number_of_iterations, Warnings,
                   fixed>>

CalculatePhaseFieldIncrementsPass ==
    /\ Due("CalculatePhaseFieldIncrements")
    /\ IF Resolution = "Single"
        THEN /\ FieldsDot' =
                    MergePhaseFieldIncrementsSR(Fields, FieldsDot, Force)
             /\ UNCHANGED FieldsDotDR
        ELSE /\ FieldsDotDR' =
                    MergePhaseFieldIncrementsDR(FieldsDR, FieldsDotDR, Force)
             /\ UNCHANGED FieldsDot
    /\ Advance
    /\ UNCHANGED <<Fields, FieldsDR, FieldsProperties, Boundary, Derivatives,
                   number_of_iterations, Warnings, fixed>>

NormalizeLoopSRPass ==
    /\ Due("NormalizeLoopSR")
    /\ \E out \in {NormalizeIncrementsSR(Fields, FieldsDot, dt)} :
           /\ FieldsDot' = [c \in Cells |-> out[c].store]
           /\ number_of_iterations' = [c \in Cells |-> out[c].iterations]
           /\ Warnings' = [c \in Cells |-> out[c].warnings]
    /\ Advance
    /\ UNCHANGED <<Fields, FieldsDR, FieldsDotDR, FieldsProperties, Boundary,
                   Derivatives, fixed>>

NormalizeLoopDRPass ==
    /\ Due("NormalizeLoopDR")
    /\ \E out \in {NormalizeIncrementsDR(FieldsDR, FieldsDotDR, dt)} :
           /\ FieldsDotDR' = [f \in FineCells |-> out[f].store]
           /\ number_of_iterations' = [f \in FineCells |-> out[f].iterations]
           /\ Warnings' = [f \in FineCells |-> out[f].warnings]
    /\ Advance
    /\ UNCHANGED <<Fields, FieldsDot, FieldsDR, FieldsProperties, Boundary,
                   Derivatives, fixed>>

CoarsenDotPass ==
    /\ Due("CoarsenDot")
    /\ FieldsDot' = CoarsenDot(Fields, FieldsDot, FieldsDotDR)
    /\ Advance
    /\ UNCHANGED <<Fields, FieldsDR, FieldsDotDR, FieldsProperties, Boundary,
                   Derivatives, number_of_iterations, Warnings, fixed>>

SetIncrementsBoundaryConditionsSRPass ==
    /\ Due("SetIncrementsBoundaryConditionsSR")
    /\ Boundary' = [Boundary EXCEPT !.FieldsDot = BoundaryOf(FieldsDot)]
    /\ Advance
    /\ UNCHANGED <<Fields, FieldsDot, FieldsDR, FieldsDotDR, FieldsProperties,
                   Derivatives, number_of_iterations, Warnings, fixed>>

MergeLoopSRPass ==
    /\ Due("MergeLoopSR")
    /\ Fields' = MergeIncrementsSR(Fields, FieldsDot, dt, FieldsProperties,
                                   PairwiseGrowthFactors)
    /\ FieldsDot' = [c \in Cells |-> ClearCell(Fields[c], FieldsDot[c], TRUE)]
    /\ Advance
    /\ UNCHANGED <<FieldsDR, FieldsDotDR, FieldsProperties, Boundary,
                   Derivatives, number_of_iterations, Warnings, fixed>>

MergeLoopDRPass ==
    /\ Due("MergeLoopDR")
    /\ FieldsDR' = MergeIncrementsDR(FieldsDR, FieldsDotDR, dt,
                                     FieldsProperties, PairwiseGrowthFactors)
    /\ FieldsDotDR' = [f \in FineCells |->
                          ClearCell(FieldsDR[f], FieldsDotDR[f], TRUE)]
    /\ Advance
    /\ UNCHANGED <<Fields, FieldsDot, FieldsProperties, Boundary,
                   Derivatives, number_of_iterations, Warnings, fixed>>

(* The loop of CombinePhaseFields runs over the boundary cells as well.    *)
CombinePhaseFieldsPass ==
    /\ Due("CombinePhaseFields")
    /\ IF Resolution = "Single"
        THEN /\ Fields' = CombinePhaseFields(Fields, FieldsProperties, Combine)
             /\ Boundary' =
                    [Boundary EXCEPT
                        !.Fields = CombineStorage(@, FieldsProperties,
                                                  Combine, 0)]
             /\ UNCHANGED FieldsDR
        ELSE /\ FieldsDR' = CombineStorage(FieldsDR, FieldsProperties,
                                           Combine, 0)
             /\ Boundary' =
                    [Boundary EXCEPT
                        !.FieldsDR = CombineStorage(@, FieldsProperties,
                                                    Combine, 0)]
             /\ UNCHANGED Fields
    /\ Advance
    /\ UNCHANGED <<FieldsDot, FieldsDotDR, FieldsProperties, Derivatives,
                   number_of_iterations, Warnings, fixed>>

NextPass ==
    \/ FinalizeLoopSRPass
    \/ FinalizeLoopDRPass
    \/ SetBoundaryConditionsSRPass
    \/ SetBoundaryConditionsDRPass
    \/ SetFlagsSRPass
    \/ SetFlagsDRPass
    \/ CalculateDerivativesSRPass
    \/ CalculateDerivativesDRPass
    \/ CalculateGrainsVolumePass
    \/ RefinePass
    \/ CoarsenPass
    \/ CalculatePhaseFieldIncrementsPass
    \/ NormalizeLoopSRPass
    \/ NormalizeLoopDRPass
    \/ CoarsenDotPass
    \/ SetIncrementsBoundaryConditionsSRPass
    \/ MergeLoopSRPass
    \/ MergeLoopDRPass
    \/ CombinePhaseFieldsPass

SpecPass == InitPass /\ [][NextPass]_vars

(***************************************************************************)
(* C13  One-step lifetime of increments: after MergeIncrements (called     *)
(* without the preserve option) the increment store of every cell is       *)
(* empty, in dual-resolution mode both the fine and the coarse store, so   *)
(* no record of a step is present when the next step collects its          *)
(* increments.                                                             *)
(***************************************************************************)
AfterMerge == pc = "increments" /\ tStep >= 1

C13_AllStoresEmptyAfterMerge ==
    AfterMerge => /\ \A f \in FineCells : FieldsDotDR[f] = <<>>
                  /\ \A c \in Cells : FieldsDot[c] = <<>>

(***************************************************************************)
(* What the properties of the call sequence talk about: the calls that     *)
(* have run since the current time step began, whether the boundary cells  *)
(* of a storage are the copy a synchronization leaves, and whether the     *)
(* stored laplacian of every wide-interface cell is the one of the values  *)
(* now in the storage.                                                     *)
(***************************************************************************)
RanAny(S) == \E k \in 1..Len(ran) : ran[k] \in S

Collection == {"CalculatePhaseFieldIncrements"}
Normalization == {"NormalizeLoopSR", "NormalizeLoopDR"}
Merge == {"MergeLoopSR", "MergeLoopDR"}
Derivative == {"CalculateDerivativesSR", "CalculateDerivativesDR"}
FieldSync == {"SetBoundaryConditionsSR", "SetBoundaryConditionsDR"}

Synced(F, B) == B = BoundaryOf(F)

UpToDate(F, B, D, scale) ==
    \A c \in DOMAIN F :
        wide_interface(F[c]) => D[c] = StencilSum(<<>>, Padded(F, B), c, scale, 1)

(***************************************************************************)
(* C14  Fixed phase order, as stated: within every time step the phases    *)
(* run in the order derivative computation, driving-force collection,      *)
(* normalization, merge, boundary synchronization, so a phase has run in   *)
(* the step only if the phase before it has run in the step.               *)
(***************************************************************************)
C14_DerivativeFirstInStep ==
    /\ RanAny(Collection) => RanAny(Derivative)
    /\ RanAny(Normalization) => RanAny(Collection)
    /\ RanAny(Merge) => RanAny(Normalization)
    /\ RanAny(FieldSync) => RanAny(Merge)

(***************************************************************************)
(* C14  Fixed phase order, as the code has it: within every time step the  *)
(* phases run in the order driving-force collection, normalization,        *)
(* merge, boundary synchronization, derivative computation; no merge runs  *)
(* without the normalization of the step before it, and the derivatives    *)
(* the force collection of a step finds are those of the values then in    *)
(* the storage, computed by the merge of the step before or by             *)
(* FinalizeInitialization.                                                 *)
(***************************************************************************)
C14_PhaseOrder ==
    /\ RanAny(Normalization) => RanAny(Collection)
    /\ RanAny(Merge) => RanAny(Normalization)
    /\ RanAny(FieldSync) => RanAny(Merge)
    /\ RanAny(Derivative) => RanAny(FieldSync)
    /\ Due("CalculatePhaseFieldIncrements") =>
        /\ UpToDate(Fields, Boundary.Fields, Derivatives.Fields, One)
        /\ Resolution = "Dual" =>
                UpToDate(FieldsDR, Boundary.FieldsDR, Derivatives.FieldsDR,
                         Rat(4, 1))

C14_Witness ==
    /\ tStep >= 1
    /\ Due("CalculatePhaseFieldIncrements")
    /\ \E c \in Cells : wide_interface(Fields[c]) /\ Derivatives.Fields[c] # <<>>
    /\ Fields # FinalizeSR(RawFields(Fields[1].pf), TRUE)

(***************************************************************************)
(* C15  Boundary synchronization ordering: when a pass that reads          *)
(* neighbour or boundary cells of a storage is about to run (flag          *)
(* setting, derivatives, Refine), the boundary cells of that storage are   *)
(* the copy a synchronization leaves, and when the merge loop is about to  *)
(* run the boundary cells of the increment stores, fine and coarse, have   *)
(* been synchronized again after the normalization.                        *)
(***************************************************************************)
C15_SyncedBeforeNeighbourReads ==
    /\ (Due("SetFlagsSR") \/ Due("CalculateDerivativesSR") \/ Due("Refine"))
            => Synced(Fields, Boundary.Fields)
    /\ (Due("SetFlagsDR") \/ Due("CalculateDerivativesDR"))
            => Synced(FieldsDR, Boundary.FieldsDR)
    /\ (Due("MergeLoopSR") \/ Due("MergeLoopDR"))
            => Synced(FieldsDot, Boundary.FieldsDot)
    /\ Due("MergeLoopDR") => Synced(FieldsDotDR, Boundary.FieldsDotDR)

(***************************************************************************)
(* The parallel loops of SetFlagsSR and CalculateDerivativesSR cell by     *)
(* cell: OMP_PARALLEL_STORAGE_LOOP hands every cell of the loop to some    *)
(* worker thread, in any order, and the loop ends when all cells are done. *)
(* The loops are the ones FinalizeSR runs after its finalize loop and its  *)
(* first SetBoundaryConditionsSR.                                          *)
(***************************************************************************)
(* The body of the loop of SetFlagsSR for cell c, on the storage with its  *)
(* boundary cells.                                                         *)
SetFlagsFrom(P, c) ==
    [d \in DOMAIN P |->
        IF P[c].flag = 2 /\ d \in {c - 1, c, c + 1} /\ P[d].flag = 0
            THEN [P[d] EXCEPT !.flag = 1]
        ELSE P[d]]

(* The grids the loops run on: every cell is bulk of grain 1 or 2 or holds *)
(* two or three grains.                                                    *)
WorkerNodes ==
    {<<Entry(1, One)>>, <<Entry(2, One)>>,
     <<Entry(1, Rat(1, ValueDen)), Entry(2, Rat(ValueDen - 1, ValueDen))>>,
     <<Entry(1, Rat(1, ValueDen)), Entry(2, Rat(1, ValueDen)),
       Entry(3, Rat(ValueDen - 2, ValueDen))>>}

InitWorkers ==
    \E grid \in [Cells -> WorkerNodes] :
        /\ Fields = FinalizeLoop([c \in Cells |-> [flag |-> 2, pf |-> grid[c]]],
                                 TRUE)
        /\ Boundary =
            [Fields |-> BoundaryOf(Fields), FieldsDot |-> <<<<>>, <<>>>>,
             FieldsDR |-> <<>>, FieldsDotDR |-> <<>>]
        /\ Derivatives =
            [Fields |-> [c \in 0..(Nx + 1) |-> <<>>], FieldsDR |-> <<>>]
        /\ tmp = [c \in Cells |-> <<>>]
        /\ done = {}
        /\ ReleaseBuild
        /\ pc = "SetFlagsSR"
        /\ Resolution = "Single"
        /\ FieldsDot = [c \in Cells |-> <<>>]
        /\ FieldsDR = <<>>
        /\ FieldsDotDR = <<>>
        /\ FieldsProperties = [idx \in Grains |-> FreshGrain(idx, FALSE)]
        /\ PairwiseGrowthFactors = NoFactors
        /\ Force = [c \in Cells |-> <<>>]
        /\ dt = Half
        /\ finalizeArg = TRUE
        /\ Combine = [p \in 0..(Nphases - 1) |-> FALSE]
        /\ pass = 0
        /\ ran = <<>>
        /\ tStep = 0
        /\ number_of_iterations = [c \in Cells |-> 0]
        /\ Warnings = [c \in Cells |-> 0]

others == <<FieldsDot, FieldsDR, FieldsDotDR, FieldsProperties,
            PairwiseGrowthFactors, Force, dt, finalizeArg, Combine,
            Resolution, pass, ran, tStep, number_of_iterations, Warnings,
            services>>

(* A worker runs the body of the loop of SetFlagsSR for cell c.            *)
SetFlagsCell(c) ==
    /\ pc = "SetFlagsSR"
    /\ c \notin done
    /\ \E P \in {SetFlagsFrom(Padded(Fields, Boundary.Fields), c)} :
           /\ Fields' = [d \in Cells |-> P[d]]
           /\ Boundary' = [Boundary EXCEPT !.Fields = <<P[0], P[Nx + 1]>>]
    /\ done' = done \cup {c}
    /\ UNCHANGED <<Derivatives, tmp, pc, others>>

(* The loop of SetFlagsSR has ended: SetBoundaryConditionsSR, and the      *)
(* first loop of CalculateDerivativesSR starts.                            *)
SetBoundaryConditionsAfterFlags ==
    /\ pc = "SetFlagsSR"
    /\ done = Cells
    /\ Boundary' = [Boundary EXCEPT !.Fields = BoundaryOf(Fields)]
    /\ Derivatives' = [Derivatives EXCEPT !.Fields = SyncDerivatives(@, Nx)]
    /\ pc' = "set_temporary"
    /\ done' = {}
    /\ UNCHANGED <<Fields, tmp, others>>

(* A worker runs the body of the first loop of CalculateDerivativesSR for  *)
(* cell c: set_temporary and the stencil sums into the temporary fields.   *)
SetTemporaryCell(c) ==
    /\ pc = "set_temporary"
    /\ c \notin done
    /\ tmp' = [tmp EXCEPT ![c] =
                IF wide_interface(Fields[c])
                    THEN StencilSum(<<>>, Padded(Fields, Boundary.Fields), c,
                                    One, 1)
                ELSE @]
    /\ done' = done \cup {c}
    /\ UNCHANGED <<Fields, Boundary, Derivatives, pc, others>>

FirstLoopEnd ==
    /\ pc = "set_temporary"
    /\ done = Cells
    /\ pc' = "copy_from_temporary"
    /\ done' = {}
    /\ UNCHANGED <<Fields, Boundary, Derivatives, tmp, others>>

(* A worker runs the body of the second loop for cell c.                   *)
CopyFromTemporaryCell(c) ==
    /\ pc = "copy_from_temporary"
    /\ c \notin done
    /\ Derivatives' =
        [Derivatives EXCEPT !.Fields[c] =
            IF wide_interface(Fields[c]) THEN tmp[c] ELSE @]
    /\ done' = done \cup {c}
    /\ UNCHANGED <<Fields, Boundary, tmp, pc, others>>

SecondLoopEnd ==
    /\ pc = "copy_from_temporary"
    /\ done = Cells
    /\ pc' = "end"
    /\ UNCHANGED <<Fields, Boundary, Derivatives, tmp, done, others>>

NextWorkers ==
    \/ \E c \in Cells : SetFlagsCell(c)
    \/ SetBoundaryConditionsAfterFlags
    \/ \E c \in Cells : SetTemporaryCell(c)
    \/ FirstLoopEnd
    \/ \E c \in Cells : CopyFromTemporaryCell(c)
    \/ SecondLoopEnd

SpecWorkers == InitWorkers /\ [][NextWorkers]_vars

(***************************************************************************)
(* C16  The derivative pass is order-independent: whatever the order in    *)
(* which the workers take the cells, the pass leaves the occupancy values  *)
(* as they were at its start, and the laplacian it has written for a       *)
(* wide-interface cell is, for every grain, the stencil sum of the values  *)
(* of that grain in the cell and its two neighbours.                       *)
(***************************************************************************)
StencilValue(P, c, idx) ==
    RAdd(RSub(get_value(P[c - 1].pf, idx),
              RMul(Rat(2, 1), get_value(P[c].pf, idx))),
         get_value(P[c + 1].pf, idx))

DerivativesWritten ==
    pc = "end" =>
        \A c \in Cells :
            wide_interface(Fields[c]) =>
                \A idx \in 1..3 :
                    get_value(Derivatives.Fields[c], idx)
                        = StencilValue(Padded(Fields, Boundary.Fields), c, idx)

ValuesKept ==
    pc \in {"set_temporary", "copy_from_temporary"}
        => Fields' = Fields /\ Boundary' = Boundary

C17_NoCrossCellMutation ==
    [][\A c \in Cells :
        (c \in done' /\ c \notin done) =>
            /\ Boundary' = Boundary
            /\ \A d \in Cells \ {c} :
                /\ Fields'[d] = Fields[d]
                /\ tmp'[d] = tmp[d]
                /\ Derivatives'.Fields[d] = Derivatives.Fields[d]]_vars

(***************************************************************************)
(* Nucleation: PhaseField::PlantGrainNucleus between time steps, followed  *)
(* by the time steps that let the planted grain grow.                      *)
(***************************************************************************)
(* NodePF::set_value: the entry of idx gets the value v, created if absent. *)
SetValueAt(pf, idx, v, n) ==
    IF n = 0 THEN Append(pf, Entry(idx, v))
    ELSE [pf EXCEPT ![n].value = v]
set_value(pf, idx, v) == SetValueAt(pf, idx, v, FindIndex(pf, idx, 1))

(* CalculateReferenceVolume(Grid.iWidth) of the runs with nucleation.      *)
NucleusRefVolume == Half

(* GrainInfo::add_grain: the registry hands out the index of an entry that *)
(* holds no grain, with the phase set; whether the entry is marked as      *)
(* existing before it has volume is left open.                             *)
(* GrainInfo::add_grain appends: the registry of a run holds the entries   *)
(* below the first of PlantIndices, and created records, for every entry   *)
(* appended since, the nucleation site it was made for (0: none).          *)
PlantIndices == 3..3
Registered(idx) ==
    Cardinality({j \in PlantIndices : j < idx}) < Len(created)
        \/ \A j \in PlantIndices : idx < j
FreeIndices ==
    {idx \in PlantIndices :
        Cardinality({j \in PlantIndices : j < idx}) = Len(created)}
add_grain(FP, locIndex, PhaseIndex, exist) ==
    [FP EXCEPT ![locIndex] = [@ EXCEPT !.Phase = PhaseIndex, !.Exist = exist]]

(* The registry entry and the cell after PlantGrainNucleus.                *)
Planted(FP, locIndex) ==
    [FP EXCEPT ![locIndex] = [@ EXCEPT !.Stage = "Seed",
                                       !.RefVolume = NucleusRefVolume,
                                       !.VolumeRatio = Zero]]

PlantedNode(node, locIndex) ==
    [node EXCEPT !.pf = set_value(@, locIndex, Zero)]

PlantGrainNucleus ==
    /\ pc = "increments"
    /\ tStep < MaxSteps
    /\ \E PhaseIndex \in 0..(Nphases - 1), x \in Cells \cup {Nx + 1},
          locIndex \in FreeIndices, exist \in BOOLEAN :
          /\ FieldsProperties' =
                Planted(add_grain(FieldsProperties, locIndex, PhaseIndex,
                                  exist), locIndex)
          /\ Fields' = IF x \in Cells
                           THEN [Fields EXCEPT
                                    ![x] = PlantedNode(@, locIndex)]
                       ELSE Fields
          /\ FieldsDR' =
                IF x \in Cells /\ Resolution = "Dual"
                    THEN [f \in DOMAIN FieldsDR |->
                            IF Parent(f) = x
                                THEN PlantedNode(FieldsDR[f], locIndex)
                            ELSE FieldsDR[f]]
                ELSE FieldsDR
    /\ created' = Append(created, 0)
    /\ UNCHANGED <<FieldsDot, FieldsDotDR, PairwiseGrowthFactors, Force, dt,
                   finalizeArg, Combine, pc, tStep, number_of_iterations,
                   Warnings, Resolution, passes, DEBUG, console,
                   GeneratedNuclei, NucleiPlanted>>

(* Runs of two grains whose rates move the grains 1 and 2 into grain 3.    *)
NucleationRuns ==
    {Run(pf, st, Half, TRUE, FALSE, NoFactors) :
        pf \in {n \in GeneralNodes : Len(n) = 2},
        st \in {q \in Stores :
                    /\ q # <<>>
                    /\ \A n \in 1..Len(q) :
                        /\ q[n].indexB = 3
                        /\ q[n].value2 = Zero
                        /\ RLt(q[n].value1, Zero)}}

InitNucleation ==
    \E run \in NucleationRuns :
        /\ Fields = InitialFields(run.pf)
        /\ FieldsDot = [c \in Cells |-> <<>>]
        /\ FieldsProperties =
                CalculateGrainsVolume(Fields,
                    [idx \in Grains |-> FreshGrain(idx, FALSE)])
        /\ PairwiseGrowthFactors = run.gcv
        /\ Force = [c \in Cells |-> IF c = 1 THEN run.rates ELSE <<>>]
        /\ dt = run.dt
        /\ finalizeArg = run.finalize
        /\ Combine = [p \in 0..(Nphases - 1) |-> FALSE]
        /\ pc = "increments"
        /\ tStep = 0
        /\ number_of_iterations = [c \in Cells |-> 0]
        /\ Warnings = [c \in Cells |-> 0]
        /\ FieldsDR = <<>>
        /\ FieldsDotDR = <<>>
        /\ Resolution = "Single"
        /\ pass = 0
        /\ Boundary = <<>>
        /\ Derivatives = <<>>
        /\ ran = <<>>
        /\ done = {}
        /\ tmp = <<>>
        /\ ReleaseBuild

NextNucleation ==
    \/ PlantGrainNucleus
    \/ CalculatePhaseFieldIncrements
    \/ NormalizeIncrements
    \/ MergeIncrements

SpecNucleation == InitNucleation /\ [][NextNucleation]_vars

(***************************************************************************)
(* C18  Lifecycle promotion as the code performs it: after a volume        *)
(* recomputation an entry of strictly positive volume is never in stage    *)
(* Seed (a Seed becomes Nucleus, or Stable at once), and it is Stable      *)
(* exactly when it was Stable before or the largest volume it has had,     *)
(* divided by its reference volume, is strictly greater than 1; an entry   *)
(* whose ratio is exactly 1 keeps its stage.                               *)
(***************************************************************************)
LargestVolume(old, new) == RMax(new.Volume, old.MAXVolume)

PromotedAsCoded(old, new) ==
    IsPos(new.Volume) =>
        /\ new.Stage # "Seed"
        /\ old.Stage = "Seed" => new.Stage \in {"Nucleus", "Stable"}
        /\ new.Stage = "Stable"
            <=> \/ old.Stage = "Stable"
                \/ RLt(old.RefVolume, LargestVolume(old, new))

C18_PromotionAboveOne ==
    [][tStep' # tStep =>
        \A idx \in Grains :
            PromotedAsCoded(FieldsProperties[idx], FieldsProperties'[idx])]_vars

WasPlanted(grain) == grain.RefVolume = NucleusRefVolume

C18_Witness ==
    \E idx \in Grains :
        /\ WasPlanted(FieldsProperties[idx])
        /\ FieldsProperties[idx].Exist
        /\ FieldsProperties[idx].Stage = "Stable"
        /\ RLt(NucleusRefVolume, FieldsProperties[idx].Volume)

(* C18 as stated: after each volume recomputation an entry of strictly     *)
(* positive volume is not a Seed, and an entry whose volume ratio (current *)
(* volume divided by its reference volume) has reached 1 is Stable.        *)
C18_StableOnceRatioReachesOne ==
    \A idx \in Grains :
        IsPos(FieldsProperties[idx].Volume) =>
            /\ FieldsProperties[idx].Stage # "Seed"
            /\ RLe(FieldsProperties[idx].RefVolume,
                   FieldsProperties[idx].Volume)
                => FieldsProperties[idx].Stage = "Stable"

(***************************************************************************)
(* C20  Coarsen and Refine preserve sum-to-1: when every node they read    *)
(* sums to 1, every coarse node written by Coarsen and every fine node     *)
(* written by Refine sums to 1, and so does every fine node Refine would   *)
(* write from the grid Coarsen has left.                                   *)
(***************************************************************************)
SumsToOne(S) == \A c \in DOMAIN S : NodeSum(S[c].pf) = One

Written(F) == {c \in Cells : wide_interface(F[c])}

RefinedAgain(F) == Refine(Padded(F, BoundaryOf(F)))

CoarsenPreserves ==
    (Due("Coarsen") /\ SumsToOne(FieldsDR) /\ SumsToOne(Fields)) =>
        /\ \A c \in Written(Fields) : NodeSum(Fields'[c].pf) = One
        /\ SumsToOne(RefinedAgain(Fields'))

RefinePreserves ==
    (Due("Refine") /\ SumsToOne(Padded(Fields, Boundary.Fields))) =>
        SumsToOne(FieldsDR')

C20_CoarsenRefineSumToOne ==
    [][CoarsenPreserves /\ RefinePreserves]_vars

C20_Witness ==
    /\ tStep >= 1
    /\ Len(ran) >= 1
    /\ ran[Len(ran)] = "Coarsen"
    /\ SumsToOne(FieldsDR)
    /\ \E c \in Written(Fields) :
        /\ FieldsDR[Child(c, -1)].pf # FieldsDR[Child(c, 1)].pf
        /\ Len(Fields[c].pf) >= 2
        /\ Fields[c].pf = DropBelowEpsilon(CoarsenNode(FieldsDR, c))

(***************************************************************************)
(* C21  Round trip of a single-region cell: Refine applied to the result   *)
(* of Coarsen reproduces a fine cell that holds one region exactly when    *)
(* the coarse cell above it and the coarse cell Refine samples next to it  *)
(* are made of that region only.                                           *)
(***************************************************************************)
RoundTrip(F, DR) == RefinedAgain(Coarsen(F, DR))

Bulk(r) == <<Entry(r, One)>>

(* The coarse cell Refine reads next to the fine cell f; past the edge of  *)
(* the grid it is the boundary cell, a copy of the cell at the edge.       *)
Sampled(f) ==
    IF Parent(f) + Side(f) \in Cells THEN Parent(f) + Side(f) ELSE Parent(f)

Uniform(F, DR, c, r) ==
    /\ DR[Child(c, -1)].pf = Bulk(r)
    /\ DR[Child(c, 1)].pf = Bulk(r)
    /\ wide_interface(F[c]) \/ F[c].pf = Bulk(r)

C21_RoundTripInUniformSurroundings ==
    (Resolution = "Dual" /\ Due("Coarsen")) =>
        \A f \in FineCells, r \in Grains :
            (Uniform(Fields, FieldsDR, Parent(f), r)
                /\ Uniform(Fields, FieldsDR, Sampled(f), r))
                => RoundTrip(Fields, FieldsDR)[f].pf = FieldsDR[f].pf

C21_Witness ==
    /\ Resolution = "Dual"
    /\ Due("Coarsen")
    /\ tStep >= 1
    /\ \E f \in FineCells, r \in Grains :
        /\ Uniform(Fields, FieldsDR, Parent(f), r)
        /\ Uniform(Fields, FieldsDR, Sampled(f), r)
        /\ wide_interface(Fields[Parent(f)])
        /\ Sampled(f) # Parent(f)
        /\ RoundTrip(Fields, FieldsDR)[f].pf = Bulk(r)

(* C21 as stated: every fine cell with a single active region is           *)
(* reproduced exactly by Refine applied to the result of Coarsen.          *)
C21_RoundTripOfSingleRegionCell ==
    (Resolution = "Dual" /\ Due("Coarsen")) =>
        \A f \in FineCells :
            Len(FieldsDR[f].pf) = 1
                => RoundTrip(Fields, FieldsDR)[f].pf = FieldsDR[f].pf

(***************************************************************************)
(* The time loop in both builds, with FixSpreading between the steps, on   *)
(* cells that FixSpreading leaves with less than full occupancy.           *)
(***************************************************************************)
DebugNodes ==
    {<<Entry(1, Rat(1, 4)), Entry(2, Rat(3, 4))>>,
     <<Entry(1, Rat(1, 5)), Entry(2, Rat(2, 5)), Entry(3, Rat(2, 5))>>,
     <<Entry(1, Rat(1, 2)), Entry(2, Rat(1, 2))>>}

DebugRuns ==
    {Run(pf, <<r>>, Half, TRUE, FALSE, NoFactors) :
        pf \in DebugNodes,
        r \in {x \in RateRecords : x.value2 = Zero /\ x.indexA = 1}}

InitDebug ==
    \E run \in DebugRuns, build \in BOOLEAN :
        /\ Fields = InitialFields(run.pf)
        /\ FieldsDot = [c \in Cells |-> <<>>]
        /\ FieldsProperties =
                CalculateGrainsVolume(Fields,
                    [idx \in Grains |-> FreshGrain(idx, FALSE)])
        /\ PairwiseGrowthFactors = run.gcv
        /\ Force = [c \in Cells |-> IF c = 1 THEN run.rates ELSE <<>>]
        /\ dt = run.dt
        /\ finalizeArg = run.finalize
        /\ Combine = [p \in 0..(Nphases - 1) |-> FALSE]
        /\ pc = "increments"
        /\ tStep = 0
        /\ number_of_iterations = [c \in Cells |-> 0]
        /\ Warnings = [c \in Cells |-> 0]
        /\ FieldsDR = <<>>
        /\ FieldsDotDR = <<>>
        /\ Resolution = "Single"
        /\ pass = 0
        /\ Boundary = <<>>
        /\ Derivatives = <<>>
        /\ ran = <<>>
        /\ done = {}
        /\ tmp = <<>>
        /\ DEBUG = build
        /\ ConsoleAtStart
        /\ NoNucleation

SpecDebug == InitDebug /\ [][Next]_vars

(***************************************************************************)
(* C22  The fatal sum check: NormalizeIncrements terminates the run        *)
(* exactly when the build is a debug build and some cell that carries a    *)
(* flag (an interface cell or a neighbour of one) has a total occupancy    *)
(* that deviates from 1 by more than the tolerance; a build without DEBUG  *)
(* never terminates the run.                                               *)
(***************************************************************************)
Deviates(node) ==
    \/ AboveFltEpsilon(RSub(NodeSum(node.pf), One))
    \/ AboveFltEpsilon(RSub(One, NodeSum(node.pf)))

C23_OneReportPerStep ==
    pc = "merge" =>
        /\ \A c \in Cells : Warnings[c] <= 1
        /\ Cardinality({c \in Cells : Warnings[c] > 0}) <= 1

(***************************************************************************)
(* ConsoleOutput: the log file, the redirection of std::cout and the write *)
(* routines.  An output is a record [routine, call]: what the call-th call *)
(* of the run wrote.  LogFile.text is the text of the file the stream has  *)
(* open (or had open last), screen the text that reached the terminal.     *)
(***************************************************************************)
MaxCalls == 3

phasefield == <<Fields, FieldsDot, FieldsProperties, PairwiseGrowthFactors,
                Force, Combine, dt, finalizeArg, pc, tStep,
                number_of_iterations, Warnings, FieldsDR, FieldsDotDR,
                Resolution, pass, Boundary, Derivatives, ran, done, tmp>>

(* A single-resolution run as PhaseField::Initialize and the first         *)
(* Finalize leave it.                                                      *)
RunStarts(run) ==
    /\ Fields = InitialFields(run.pf)
    /\ FieldsDot = [c \in Cells |-> <<>>]
    /\ FieldsProperties =
            CalculateGrainsVolume(Fields,
                [idx \in Grains |-> FreshGrain(idx, FALSE)])
    /\ PairwiseGrowthFactors = run.gcv
    /\ Force = [c \in Cells |-> IF c = 1 THEN run.rates ELSE <<>>]
    /\ dt = run.dt
    /\ finalizeArg = run.finalize
    /\ Combine = [p \in 0..(Nphases - 1) |-> FALSE]
    /\ pc = "increments"
    /\ tStep = 0
    /\ number_of_iterations = [c \in Cells |-> 0]
    /\ Warnings = [c \in Cells |-> 0]
    /\ FieldsDR = <<>>
    /\ FieldsDotDR = <<>>
    /\ Resolution = "Single"
    /\ pass = 0
    /\ Boundary = <<>>
    /\ Derivatives = <<>>
    /\ ran = <<>>
    /\ done = {}
    /\ tmp = <<>>

Output(routine) == [routine |-> routine, call |-> calls + 1]

(* stream << text on a std::ofstream: nothing is written once the stream   *)
(* has failed; writing to a stream without an open file fails.             *)
Put(file, text) ==
    IF file.fail THEN file
    ELSE IF ~file.is_open THEN [file EXCEPT !.fail = TRUE]
    ELSE [file EXCEPT !.text = @ \o text]

(* std::ofstream::open with ios::trunc: it fails, and leaves the stream as *)
(* it is, when the stream has a file open or the file cannot be opened.    *)
Filenames == {"", "run.log", "missing/run.log"}
Opens(filename) == filename = "run.log"

open(file, filename) ==
    IF file.is_open \/ ~Opens(filename) THEN [file EXCEPT !.fail = TRUE]
    ELSE [is_open |-> TRUE, fail |-> FALSE, text |-> <<>>]

(* ConsoleOutput::WriteToLog.                                              *)
WriteToLog(file, enabled, text) == IF enabled THEN Put(file, text) ELSE file

(* std::cout << text: to the terminal, or through the stream buffer of     *)
(* LogFile into its file; the write fails when that buffer has no file.    *)
OnTerminal(stream, text) ==
    IF stream.rdbuf = "terminal" /\ ~stream.bad THEN text ELSE <<>>

IntoFile(stream, file, text) ==
    IF stream.rdbuf = "LogFile" /\ ~stream.bad /\ file.is_open
        THEN [file EXCEPT !.text = @ \o text]
    ELSE file

After(stream, file, text) ==
    IF text # <<>> /\ stream.rdbuf = "LogFile" /\ ~file.is_open
        THEN [stream EXCEPT !.bad = TRUE]
    ELSE stream

Redirected(enabled) ==
    IF enabled THEN [rdbuf |-> "LogFile", bad |-> FALSE] ELSE cout

InitLogFile ==
    /\ calls < MaxCalls
    /\ \E filename \in Filenames,
          consoleVerbosity \in {Silent, Warning, Normal} :
        IF filename = ""
            THEN /\ LogEnabled' = FALSE
                 /\ UNCHANGED <<OutputVerbosity, LogFile, CoutBuf, cout>>
        ELSE /\ LogEnabled' = open(LogFile, filename).is_open
             /\ OutputVerbosity' =
                    IF LogEnabled' THEN consoleVerbosity ELSE OutputVerbosity
             /\ CoutBuf' = IF LogEnabled' THEN cout.rdbuf ELSE CoutBuf
             /\ cout' = Redirected(LogEnabled')
             /\ LogFile' =
                    IF LogEnabled'
                        THEN Put(open(LogFile, filename),
                                 <<Output("log started")>>)
                    ELSE open(LogFile, filename)
    /\ calls' = calls + 1
    /\ UNCHANGED <<screen, DEBUG, nucleation, phasefield>>

CloseLogFile ==
    /\ calls < MaxCalls
    /\ IF LogEnabled
        THEN /\ LogFile' =
                    [Put(LogFile, <<Output("log finished")>>)
                        EXCEPT !.is_open = FALSE]
             /\ cout' = IF CoutBuf # "nullptr"
                            THEN [rdbuf |-> CoutBuf, bad |-> FALSE]
                        ELSE cout
             /\ CoutBuf' = "nullptr"
             /\ LogEnabled' = FALSE
       ELSE UNCHANGED <<LogFile, cout, CoutBuf, LogEnabled>>
    /\ calls' = calls + 1
    /\ UNCHANGED <<OutputVerbosity, screen, DEBUG, nucleation, phasefield>>

(* The streams while a write routine runs, and its two kinds of write.    *)
Streams == [file |-> LogFile, stream |-> cout, screen |-> screen]

ToLog(st, text) == [st EXCEPT !.file = WriteToLog(@, LogEnabled, text)]

ToCout(st, text) ==
    [file |-> IntoFile(st.stream, st.file, text),
     stream |-> After(st.stream, st.file, text),
     screen |-> st.screen \o OnTerminal(st.stream, text)]

(* WriteLine, WriteSimple, ...: to the log and, at verbosity Normal or     *)
(* above, to std::cout.                                                    *)
ToLogAndCout(st, text) ==
    IF OutputVerbosity >= Normal THEN ToCout(ToLog(st, text), text)
    ELSE ToLog(st, text)

WriteLine(st) == ToLogAndCout(st, <<Output("WriteLine")>>)

Leaves(st) ==
    /\ LogFile' = st.file
    /\ cout' = st.stream
    /\ screen' = st.screen
    /\ calls' = calls + 1
    /\ UNCHANGED <<OutputVerbosity, LogEnabled, CoutBuf, DEBUG, nucleation,
                   phasefield>>

WriteSimple ==
    /\ calls < MaxCalls
    /\ Leaves(ToLogAndCout(Streams, <<Output("WriteSimple")>>))

(* WriteTimeStep(tStep, nSteps, Message): the time step goes to the log,   *)
(* and between two WriteLine calls to std::cout.                           *)
WriteTimeStep ==
    /\ calls < MaxCalls
    /\ Leaves(IF OutputVerbosity >= Normal
                THEN WriteLine(ToCout(WriteLine(ToLog(Streams,
                                        <<Output("WriteTimeStep")>>)),
                                      <<Output("WriteTimeStep")>>))
              ELSE ToLog(Streams, <<Output("WriteTimeStep")>>))

(* WriteWarning: to the log and to std::cerr, at verbosity Warning or      *)
(* above only.                                                             *)
WriteWarning ==
    /\ calls < MaxCalls
    /\ LogFile' = IF OutputVerbosity >= Warning
                      THEN WriteToLog(LogFile, LogEnabled,
                                      <<Output("WriteWarning")>>)
                  ELSE LogFile
    /\ screen' = IF OutputVerbosity >= Warning
                     THEN Append(screen, Output("WriteWarning"))
                 ELSE screen
    /\ calls' = calls + 1
    /\ UNCHANGED <<OutputVerbosity, LogEnabled, CoutBuf, cout, DEBUG,
                   nucleation, phasefield>>

(* WriteExit: to the log and to std::cerr, at every verbosity.             *)
WriteExit ==
    /\ calls < MaxCalls
    /\ LogFile' = WriteToLog(LogFile, LogEnabled, <<Output("WriteExit")>>)
    /\ screen' = Append(screen, Output("WriteExit"))
    /\ calls' = calls + 1
    /\ UNCHANGED <<OutputVerbosity, LogEnabled, CoutBuf, cout, DEBUG,
                   nucleation, phasefield>>

ConsoleRun == Run(ScenarioANode, <<>>, Half, TRUE, FALSE, NoFactors)

InitConsole ==
    /\ RunStarts(ConsoleRun)
    /\ DEBUG = FALSE
    /\ ConsoleAtStart
    /\ NoNucleation

NextConsole ==
    \/ InitLogFile
    \/ CloseLogFile
    \/ WriteSimple
    \/ WriteTimeStep
    \/ WriteWarning
    \/ WriteExit

SpecConsole == InitConsole /\ [][NextConsole]_vars

(***************************************************************************)
(* C24  Log completeness: while file logging is enabled, the message of    *)
(* every call of a write routine (standard output, warnings, exits, time   *)
(* steps) is in the log file after the call, whatever OutputVerbosity is.  *)
(***************************************************************************)
Logged(file, call) ==
    \E k \in 1..Len(file.text) : file.text[k].call = call

C24_LogComplete ==
    [][((WriteSimple \/ WriteTimeStep \/ WriteWarning \/ WriteExit)
            /\ LogEnabled) => Logged(LogFile', calls')]_vars

(***************************************************************************)
(* C29  Console stream restoration: after CloseLogFile returns, std::cout  *)
(* is attached to the stream buffer it had before the first InitLogFile    *)
(* call, and std::cout is never attached to the buffer of a log file that  *)
(* is closed.                                                              *)
(***************************************************************************)
C29_CoutRestored ==
    /\ [][CloseLogFile => cout'.rdbuf = "terminal"]_vars
    /\ [](cout.rdbuf = "LogFile" => LogFile.is_open)

(***************************************************************************)
(* C25  Destruction is permanent: once CalculateGrainsVolume has cleared   *)
(* the existence flag of a registry entry because its volume reached <= 0, *)
(* the flag of that entry is not set again by any later merge, finalize or *)
(* volume recomputation of the run.                                        *)
(***************************************************************************)
(* The state the destroying branch leaves, until the next recomputation:  *)
(* no other branch leaves a grain that does not exist with a volume ratio  *)
(* of 1.                                                                   *)
JustDestroyed(idx) ==
    /\ ~FieldsProperties[idx].Exist
    /\ FieldsProperties[idx].VolumeRatio = One

C25_DestructionPermanent ==
    [][\A idx \in Grains :
            JustDestroyed(idx) => ~FieldsProperties[idx].Exist']_vars

(***************************************************************************)
(* C26  Stage monotonicity: across planting, merging and volume            *)
(* recomputation the stage of a registry entry only moves forward along    *)
(* Seed -> Nucleus -> Stable, possibly skipping a stage; it never returns  *)
(* from Stable to Nucleus or Seed, or from Nucleus to Seed.                *)
(***************************************************************************)
StageRank(stage) ==
    IF stage = "Seed" THEN 0 ELSE IF stage = "Nucleus" THEN 1 ELSE 2

C26_StageNeverMovesBackward ==
    [][\A idx \in Grains :
            Registered(idx) =>
                StageRank(FieldsProperties[idx].Stage)
                    <= StageRank(FieldsProperties'[idx].Stage)]_vars

(* A planted entry that has been promoted from Seed to Nucleus.            *)
C26_Witness ==
    \E idx \in PlantIndices :
        /\ Registered(idx)
        /\ FieldsProperties[idx].Exist
        /\ FieldsProperties[idx].Stage = "Nucleus"

(***************************************************************************)
(* The clean-up of NormalizeIncrementsSR and NormalizeIncrementsDR on      *)
(* increments of the size of DBL_EPSILON.  A rational of the model is at   *)
(* least 2^-31, so the stores of this section hold value1 in units of      *)
(* DBL_EPSILON (3/2 is 1.5 * 2^-52); the values of the nodes and dt are    *)
(* plain numbers.  The nodes are those of GeneralNodes with two or more    *)
(* grains: every value of the node lies strictly between 0 and 1, and      *)
(* increments of this size move none of them past a bound, so every limit  *)
(* of the limiting loop is 1 and its first pass leaves the store as it is. *)
(***************************************************************************)
SmallRates == {Rat(k, 2) : k \in {-3, -2, -1, 1, 2, 3}}
SmallSteps == {Half, One, Rat(2, 1)}

SmallStores ==
    {<<Pair(1, 2, q1, Zero), Pair(ab[1], ab[2], q2, Zero)>> :
        q1 \in SmallRates, q2 \in SmallRates, ab \in {<<1, 3>>, <<2, 3>>}}

(* fabs(x) < DBL_EPSILON for x in units of DBL_EPSILON.                    *)
BelowOneEpsilon(x) == RLt(x, One) /\ RLt(RNeg(x), One)

CleanUpSmallSR(store, step) ==
    SelectSeq(store, LAMBDA r : ~BelowOneEpsilon(RMul(r.value1, step)))

CleanUpSmallDR(store, step) ==
    SelectSeq(store, LAMBDA r : ~BelowOneEpsilon(r.value1))

(* case 1 of the switch: the pair is cleared at a bound, else norm is 1.   *)
SmallSinglePair(pf, store) ==
    IF OutOfBounds(get_value(pf, store[1].indexA),
                   RAdd(store[1].value1, store[1].value2))
        THEN <<>>
    ELSE store

SmallPinned(pf, store) == RemoveZeroSets(PinOutOfBounds(store, pf, 1))

NormalizeSmallSR(node, store, step) ==
    IF ~wide_interface(node) \/ Len(store) = 0 THEN store
    ELSE IF Len(store) = 1 THEN SmallSinglePair(node.pf, store)
    ELSE CleanUpSmallSR(SmallPinned(node.pf, store), step)

NormalizeSmallDR(node, store, step) ==
    IF ~wide_interface(node) \/ Len(store) = 0 THEN store
    ELSE IF Len(store) = 1 THEN SmallSinglePair(node.pf, store)
    ELSE CleanUpSmallDR(SmallPinned(node.pf, store), step)

(* The same node, the same store and the same dt in the first cell of the  *)
(* coarse grid and in the first cell of the fine grid.                     *)
InitSmall ==
    \E pf \in {n \in GeneralNodes : Len(n) >= 2}, store \in SmallStores,
       step \in SmallSteps :
        /\ Fields = InitialFields(pf)
        /\ FieldsDR = [f \in FineCells |-> Fields[Parent(f)]]
        /\ FieldsDot = [c \in Cells |-> IF c = 1 THEN store ELSE <<>>]
        /\ FieldsDotDR = [f \in FineCells |-> IF f = 1 THEN store ELSE <<>>]
        /\ FieldsProperties =
                CalculateGrainsVolume(Fields,
                    [idx \in Grains |-> FreshGrain(idx, FALSE)])
        /\ PairwiseGrowthFactors = NoFactors
        /\ Force = [c \in Cells |-> IF c = 1 THEN store ELSE <<>>]
        /\ dt = step
        /\ finalizeArg = TRUE
        /\ Combine = [p \in 0..(Nphases - 1) |-> FALSE]
        /\ pc = "normalize"
        /\ tStep = 0
        /\ number_of_iterations = [c \in Cells |-> 0]
        /\ Warnings = [c \in Cells |-> 0]
        /\ Resolution = "Dual"
        /\ pass = 0
        /\ Boundary = <<>>
        /\ Derivatives = <<>>
        /\ ran = <<>>
        /\ done = {}
        /\ tmp = <<>>
        /\ ReleaseBuild

Ran(name) == \E n \in 1..Len(ran) : ran[n] = name

NormalizeIncrementsSmallSR ==
    /\ ~Ran("NormalizeIncrementsSR")
    /\ FieldsDot' = [c \in Cells |-> NormalizeSmallSR(Fields[c], FieldsDot[c], dt)]
    /\ ran' = Append(ran, "NormalizeIncrementsSR")
    /\ UNCHANGED <<Fields, FieldsProperties, PairwiseGrowthFactors, Force,
                   Combine, dt, finalizeArg, pc, tStep, number_of_iterations,
                   Warnings, FieldsDR, FieldsDotDR, Resolution, pass,
                   Boundary, Derivatives, done, tmp, services>>

NormalizeIncrementsSmallDR ==
    /\ ~Ran("NormalizeIncrementsDR")
    /\ FieldsDotDR' =
            [f \in FineCells |-> NormalizeSmallDR(FieldsDR[f], FieldsDotDR[f], dt)]
    /\ ran' = Append(ran, "NormalizeIncrementsDR")
    /\ UNCHANGED <<Fields, FieldsDot, FieldsProperties, PairwiseGrowthFactors,
                   Force, Combine, dt, finalizeArg, pc, tStep,
                   number_of_iterations, Warnings, FieldsDR, Resolution, pass,
                   Boundary, Derivatives, done, tmp, services>>

NextSmall == NormalizeIncrementsSmallSR \/ NormalizeIncrementsSmallDR

SpecSmall == InitSmall /\ [][NextSmall]_vars

(***************************************************************************)
(* C27  Single- and dual-resolution normalization agree per cell: given    *)
(* the same node, the same store and the same dt, NormalizeIncrementsSR    *)
(* and NormalizeIncrementsDR leave the cell's store with the same records  *)
(* and the same values, the small records that are dropped included.       *)
(***************************************************************************)
C27_SameRecordsLeft ==
    (Ran("NormalizeIncrementsSR") /\ Ran("NormalizeIncrementsDR"))
        => FieldsDot[1] = FieldsDotDR[1]

(***************************************************************************)
(* C28  Combining regions and the cell sum: in every cell CombinePhaseFields *)
(* zeroes the values of the non-majority Stable regions of a combined      *)
(* phase and adds their total to the majority index if that total is       *)
(* above DBL_EPSILON; then the sum of the cell is what it was.  A total    *)
(* that is not above DBL_EPSILON is dropped, and the sum of the cell is    *)
(* the sum before the call less that total.                                *)
(***************************************************************************)
(* The grid CombinePhaseFields is called on by the Finalize of the merge.  *)
Merged ==
    MergeIncrementsSR(Fields, FieldsDot, dt, FieldsProperties,
                      PairwiseGrowthFactors)

AfterCombine == CombinePhaseFields(Merged, FieldsProperties, Combine)

Combines(p) ==
    /\ Combine[p]
    /\ MajorityFound(FieldsProperties, p)
    /\ Cardinality(StableOfPhase(FieldsProperties, p)) > 1

(* value_to_combine of a cell for the phase p.                             *)
ValueToCombine(node, p) ==
    SumOver([n \in 1..Len(node.pf) |->
                IF ToCombine(FieldsProperties, p,
                             MajorityIndex(FieldsProperties, p), node.pf[n])
                    THEN node.pf[n].value ELSE Zero],
            1..Len(node.pf))

DroppedTotal(node, p) ==
    IF Combines(p) /\ ~AboveDblEpsilon(ValueToCombine(node, p))
        THEN ValueToCombine(node, p)
    ELSE Zero

Site(phase, position, dGmin, Nvariants) ==
    [phase |-> phase, position |-> position, dGmin |-> dGmin,
     Nvariants |-> Nvariants, planted |-> FALSE, time_stamp |-> 0]

GeneratedSites ==
    {<<Site(1, position, Rat(barrier, 1), Nvariants)>> :
        position \in 1..2, barrier \in 1..MaxRate, Nvariants \in 1..2}

(* The registry holds the entries below PlantIndices and those appended.   *)
RegistrySize ==
    Cardinality({idx \in Grains : \A j \in PlantIndices : idx < j})
        + Len(created)

(* One PlantGrainNucleus call of PlantNuclei for the site s, and the       *)
(* RefVolume /= Nvariants that follows it for a phase with variants.       *)
PlantVariant(st, site, s, exist) ==
    [FP |-> [Planted(add_grain(st.FP, RegistrySize + st.made, site.phase,
                               exist),
                     RegistrySize + st.made)
                EXCEPT ![RegistrySize + st.made].RefVolume =
                            IF site.Nvariants > 1
                                THEN RDiv(@, Rat(site.Nvariants, 1))
                            ELSE @],
     F |-> IF site.position \in Cells
               THEN [st.F EXCEPT ![site.position] =
                        PlantedNode(@, RegistrySize + st.made)]
           ELSE st.F,
     sites |-> st.sites \o <<s>>,
     made |-> st.made + 1]

RECURSIVE PlantVariants(_, _, _, _, _)
PlantVariants(st, site, s, exist, locVariant) ==
    IF locVariant >= site.Nvariants THEN st
    ELSE PlantVariants(PlantVariant(st, site, s, exist), site, s, exist,
                       locVariant + 1)

RECURSIVE PlantSites(_, _, _)
PlantSites(st, s, exist) ==
    IF s > Len(GeneratedNuclei) THEN st
    ELSE PlantSites(IF ~GeneratedNuclei[s].planted
                        THEN PlantVariants(st, GeneratedNuclei[s], s, exist, 0)
                    ELSE st,
                    s + 1, exist)

(* The registry entries created for the site s.                            *)
CreatedFor(s) == Cardinality({k \in 1..Len(created) : created[k] = s})

ToPlant ==
    SumOver([s \in 1..Len(GeneratedNuclei) |->
                IF GeneratedNuclei[s].planted THEN Zero
                ELSE Rat(GeneratedNuclei[s].Nvariants, 1)],
            1..Len(GeneratedNuclei))[1]

(* A time step calls PlantNuclei once, and CheckNuclei after it.            *)
PlantNuclei ==
    /\ pc = "increments"
    /\ tStep < MaxSteps
    /\ ~NucleiPlanted
    /\ \A s \in 1..Len(GeneratedNuclei) :
            CreatedFor(s) > 0 => GeneratedNuclei[s].time_stamp < tStep
    /\ RegistrySize + ToPlant <= MaxIndex + 1
    /\ \E exist \in BOOLEAN :
        \E st \in {PlantSites([FP |-> FieldsProperties, F |-> Fields,
                               sites |-> <<>>, made |-> 0], 1, exist)} :
            /\ FieldsProperties' = st.FP
            /\ Fields' = st.F
            /\ created' = created \o st.sites
    /\ GeneratedNuclei' =
            [s \in 1..Len(GeneratedNuclei) |->
                IF GeneratedNuclei[s].planted THEN GeneratedNuclei[s]
                ELSE [GeneratedNuclei[s] EXCEPT !.time_stamp = tStep]]
    /\ NucleiPlanted' =
            (NucleiPlanted
                \/ \E s \in 1..Len(GeneratedNuclei) : ~GeneratedNuclei[s].planted)
    /\ UNCHANGED <<FieldsDot, PairwiseGrowthFactors, Force, Combine, dt,
                   finalizeArg, pc, tStep, number_of_iterations, Warnings,
                   dual, Resolution, passes, DEBUG, console>>

(* The scan of dG.Force at the position of a site: a record with a Seed of *)
(* the phase of the site at one end counts as a variant if its average     *)
(* reaches the barrier and is removed if not.                              *)
SeedOf(site, idx) ==
    /\ FieldsProperties[idx].Phase = site.phase
    /\ FieldsProperties[idx].Stage = "Seed"

CountsA(site, r) == SeedOf(site, r.indexA) /\ ~RLt(r.value1, site.dGmin)
CountsB(site, r) == SeedOf(site, r.indexB) /\ ~RLt(RNeg(site.dGmin), r.value1)

Removed(site, r) ==
    \/ SeedOf(site, r.indexA) /\ RLt(r.value1, site.dGmin)
    \/ SeedOf(site, r.indexB) /\ RLt(RNeg(site.dGmin), r.value1)
    \/ /\ FieldsProperties[r.indexA].Phase = site.phase
       /\ FieldsProperties[r.indexB].Phase = site.phase
       /\ (FieldsProperties[r.indexA].Stage = "Seed"
            \/ FieldsProperties[r.indexB].Stage = "Seed")

locNvariants(site, store) ==
    Cardinality({k \in 1..Len(store) : CountsA(site, store[k])})
        + Cardinality({k \in 1..Len(store) : CountsB(site, store[k])})

CheckedSite(site, store) ==
    IF site.position \in Cells /\ locNvariants(site, store) > 0
        THEN [site EXCEPT !.planted = TRUE]
    ELSE [site EXCEPT !.planted = FALSE]

(* dG.Force after the scans of the sites s..last.                          *)
RECURSIVE ScanForce(_, _, _)
ScanForce(F, s, last) ==
    IF s > last THEN F
    ELSE ScanForce(IF /\ ~GeneratedNuclei[s].planted
                      /\ GeneratedNuclei[s].position \in Cells
                       THEN [F EXCEPT ![GeneratedNuclei[s].position] =
                                SelectSeq(@, LAMBDA r :
                                    ~Removed(GeneratedNuclei[s], r))]
                   ELSE F,
                   s + 1, last)

CheckNuclei ==
    /\ pc = "increments"
    /\ tStep < MaxSteps
    /\ NucleiPlanted
    /\ NucleiPlanted' = FALSE
    /\ GeneratedNuclei' =
            [s \in 1..Len(GeneratedNuclei) |->
                IF GeneratedNuclei[s].planted THEN GeneratedNuclei[s]
                ELSE CheckedSite(GeneratedNuclei[s],
                        IF GeneratedNuclei[s].position \in Cells
                            THEN ScanForce(Force, 1, s - 1)
                                    [GeneratedNuclei[s].position]
                        ELSE <<>>)]
    /\ Force' = ScanForce(Force, 1, Len(GeneratedNuclei))
    /\ UNCHANGED <<Fields, FieldsDot, FieldsProperties, PairwiseGrowthFactors,
                   Combine, dt, finalizeArg, pc, tStep, number_of_iterations,
                   Warnings, dual, Resolution, passes, DEBUG, console, created>>

InitSites ==
    \E run \in NucleationRuns :
        /\ RunStarts(run)
        /\ DEBUG = FALSE
        /\ ConsoleAtStart
        /\ GeneratedNuclei \in GeneratedSites
        /\ NucleiPlanted = FALSE
        /\ created = <<>>

(* The increments of a time step follow its CheckNuclei call.               *)
IncrementsAfterCheck ==
    /\ ~NucleiPlanted
    /\ CalculatePhaseFieldIncrements

NextSites ==
    \/ PlantNuclei
    \/ CheckNuclei
    \/ IncrementsAfterCheck
    \/ NormalizeIncrements
    \/ MergeIncrements

SpecSites == InitSites /\ [][NextSites]_vars

(***************************************************************************)
(* C30  Bounded registry growth per nucleation site: over the whole run    *)
(* the number of registry entries created for a generated site is at most  *)
(* the number of symmetry variants of the site, whether or not CheckNuclei *)
(* confirmed it.                                                           *)
(***************************************************************************)
C30_EntriesPerSiteBounded ==
    \A s \in 1..Len(GeneratedNuclei) :
        CreatedFor(s) <= GeneratedNuclei[s].Nvariants

======================================================================
